---- MODULE Spec2Model ----
(***************************************************************************)
(* State-machine model of the Todoist <-> Obsidian sync engine             *)
(* (SyncEngine, TodoistState, ObsidianState, FileGenerator,                *)
(* FrontmatterParser, TodoistSyncAPI).                                     *)
(*                                                                         *)
(* Strings that the code inspects character by character (titles, names)   *)
(* are sequences of one-character strings.  Times are natural numbers      *)
(* (milliseconds of Date.now()); the clock advances when the environment   *)
(* acts.  A path is a sequence of segments below the sync folder, the      *)
(* sync folder itself being the empty sequence.                            *)
(***************************************************************************)
EXTENDS Integers, Sequences, FiniteSets, TLC

\* ------------------------------------------------------------------------
\* Bounds of the model
\* ------------------------------------------------------------------------
MaxEnv == 2      \* environment events (remote edits, user edits, settings)
MaxCalls == 2    \* calls of the four entry points
MaxFail == 1     \* transport / storage failures injected by the environment

\* ------------------------------------------------------------------------
\* Program constants
\* ------------------------------------------------------------------------
MaxNameLen == 100             \* sanitizeFileName: substring(0, 100)
FullSyncMaxAge == 86400000    \* needsFullSync: 24 * 60 * 60 * 1000

\* ------------------------------------------------------------------------
\* Universe
\* ------------------------------------------------------------------------
ProjectIds == {"P1"}
SectionIds == {"S1"}
TaskIds == {"T1", "T2"}
NoId == "none"                \* undefined / null id

TitleDot == <<"a", ".">>
TitleQ == <<"a", "?">>
TitleB == <<"b">>
Titles == {TitleDot, TitleQ, TitleB}
NameP == <<"p">>
NameQ == <<"q">>
ProjectNames == {NameP, NameQ}
SectionNames == {<<"s">>}
NoTitle == << >>              \* absent or empty title (both falsy)
Priorities == {1, 2}
NoPriority == 0               \* priority property absent in the frontmatter

Ops == {"performSync", "fetchFromTodoist", "scan", "pull"}

\* ------------------------------------------------------------------------
\* Map helpers (JavaScript Map: set / delete)
\* ------------------------------------------------------------------------
Put(f, k, v) == [x \in (DOMAIN f) \cup {k} |-> IF x = k THEN v ELSE f[x]]
Del(f, k) == [x \in (DOMAIN f) \ {k} |-> f[x]]
EmptyMap == [x \in {} |-> 0]

\* ------------------------------------------------------------------------
\* FileGenerator.sanitizeFileName
\* ------------------------------------------------------------------------
\* First index >= i at which s holds character c, or 0
IndexFrom(s, c, i) ==
  LET at == {x \in i..Len(s) : s[x] = c}
  IN IF at = {} THEN 0 ELSE CHOOSE x \in at : \A y \in at : x <= y

\* the index of the ")" closing a link that opens at i, or 0
LinkEnd(s, i) ==
  LET j == IF s[i] = "[" THEN IndexFrom(s, "]", i + 1) ELSE 0
  IN IF j >= i + 2 /\ j + 1 <= Len(s) /\ s[j + 1] = "("
     THEN IndexFrom(s, ")", j + 2) ELSE 0

\* name.replace(/\[([^\]]+)\]\((.*?)\)/g, '$1'), from index i on
RECURSIVE CollapseLinks(_, _)
CollapseLinks(s, i) ==
  LET links == {x \in i..Len(s) : LinkEnd(s, x) > 0}
      x == CHOOSE x \in links : \A y \in links : x <= y
  IN IF links = {} THEN SubSeq(s, i, Len(s))
     ELSE SubSeq(s, i, x - 1)
            \o SubSeq(s, x + 1, IndexFrom(s, "]", x + 1) - 1)
            \o CollapseLinks(s, LinkEnd(s, x) + 1)

ReservedChars == {"<", ">", ":", "\"", "/", "\\", "|", "?", "*"}

ReplaceReserved(s) ==
  [i \in 1..Len(s) |-> IF s[i] \in ReservedChars \cup {"."} THEN "_" ELSE s[i]]

RECURSIVE TrimLeft(_)
TrimLeft(s) ==
  IF s # << >> /\ Head(s) = " " THEN TrimLeft(Tail(s)) ELSE s

RECURSIVE TrimRight(_)
TrimRight(s) ==
  IF s # << >> /\ s[Len(s)] = " " THEN TrimRight(SubSeq(s, 1, Len(s) - 1)) ELSE s

Trim(s) == TrimRight(TrimLeft(s))

Truncate(s) == IF Len(s) > MaxNameLen THEN SubSeq(s, 1, MaxNameLen) ELSE s

\* v.replace(/_+/g, '_'): each half collapsed, then the run across the cut
RECURSIVE CollapseUnderscores(_)
CollapseUnderscores(s) ==
  IF Len(s) < 2 THEN s
  ELSE LET mid == Len(s) \div 2
           left == CollapseUnderscores(SubSeq(s, 1, mid))
           right == CollapseUnderscores(SubSeq(s, mid + 1, Len(s)))
       IN IF left[Len(left)] = "_" /\ right[1] = "_"
          THEN left \o Tail(right) ELSE left \o right

Untitled == <<"u", "n", "t", "i", "t", "l", "e", "d">>

\* fault variant of sanitizeFileName: trims after cutting to length
sanitizeFileNameTrimLast(name) ==
  LET v == CollapseUnderscores(Trim(Truncate(ReplaceReserved(CollapseLinks(name, 1)))))
  IN IF v = << >> THEN Untitled ELSE v

sanitizeFileName(name) ==
  LET v == CollapseUnderscores(Truncate(Trim(ReplaceReserved(CollapseLinks(name, 1)))))
  IN IF v = << >> THEN Untitled ELSE v

\* ------------------------------------------------------------------------
\* Paths
\* ------------------------------------------------------------------------
SyncFolder == << >>
ProjectFile == << <<"_project.md">> >>
SectionFile == << <<"_section.md">> >>

\* FileGenerator.getTaskFolderPath
getTaskFolderPath(projectName, sectionName) ==
  IF projectName = NoTitle THEN SyncFolder
  ELSE IF sectionName = NoTitle THEN <<sanitizeFileName(projectName)>>
  ELSE <<sanitizeFileName(projectName), sanitizeFileName(sectionName)>>

\* filePath.substring(0, filePath.lastIndexOf('/'))
ParentFolder(path) == SubSeq(path, 1, Len(path) - 1)

\* a folder together with all its ancestors (createFolder is recursive)
WithAncestors(folder) == {SubSeq(folder, 1, n) : n \in 0..Len(folder)}

\* ------------------------------------------------------------------------
\* Records
\* ------------------------------------------------------------------------
\* TodoistTask / TodoistProject / TodoistSection (the fields the engine reads)
TaskRec(content, priority, checked, project_id, section_id, date_added) ==
  [content |-> content, priority |-> priority, checked |-> checked,
   project_id |-> project_id, section_id |-> section_id,
   date_added |-> date_added, is_deleted |-> FALSE]

ProjectRec(name) ==
  [name |-> name, color |-> "blue", is_favorite |-> FALSE,
   is_archived |-> FALSE, is_deleted |-> FALSE]

SectionRec(name, project_id) ==
  [name |-> name, project_id |-> project_id, is_deleted |-> FALSE]

\* a record of an incremental payload announcing a deletion
Tombstone == [is_deleted |-> TRUE]

NoSync == 0 - 1      \* last_sync property absent
BadSync == 0 - 2     \* last_sync property that new Date() cannot parse

\* TaskFrontmatter / ProjectFrontmatter / SectionFrontmatter as one bag
Frontmatter(id, type, title, priority, completed, color, fav, project, last_sync) ==
  [todoist_id |-> id, todoist_type |-> type, title |-> title,
   priority |-> priority, completed |-> completed, color |-> color,
   is_favorite |-> fav, todoist_project |-> project,
   sync_status |-> "synced", last_sync |-> last_sync]

\* a markdown file: frontmatter, whether the body holds a "[x]" marker, mtime
Doc(fm, checkbox, mtime) == [fm |-> fm, checkbox |-> checkbox, mtime |-> mtime]

\* ObsidianTaskNote / ObsidianProjectNote / ObsidianSectionNote
Note(filePath, id, name, fm, lastModified) ==
  [filePath |-> filePath, todoistId |-> id, name |-> name,
   frontmatter |-> fm, lastModified |-> lastModified]

\* ------------------------------------------------------------------------
\* State
\* ------------------------------------------------------------------------
VARIABLES
  server,          \* the remote workspace: [tasks, projects, sections], id-keyed
  serverDirty,     \* <<kind, id>> changed remotely since the last fetch answered
  ts,              \* TodoistState: maps + syncToken, lastFullSync, lastIncrementalSync
  os,              \* ObsidianState: taskNotes, projectNotes, sectionNotes, filePathToTodoistId
  files,           \* vault: path -> Doc
  folders,         \* vault: set of existing folder paths
  isRunning,       \* SyncEngine.isRunning
  lastSyncTime,    \* SyncEngine.lastSyncTime
  pendingChanges,  \* SyncEngine.pendingChanges: paths in insertion order
  isWatchingFiles, \* SyncEngine.isWatchingFiles
  settings,        \* SyncEngine.settings: [tokenSet, dryRunMode]
  fgDryRun,        \* FileGenerator.dryRun
  pc,              \* position of each entry point: Ops -> phase
  work,            \* locals of the run in flight
  log,             \* decisions of the reconcile pass in flight (stats, in order)
  calls,           \* remote mutations issued by the run in flight
  lastResult,      \* outcome returned by the latest call that returned
  now,             \* Date.now()
  hist,            \* bookkeeping for two-run properties
  budget           \* what the bounds still allow: [env, calls, fail]

vars == <<server, serverDirty, ts, os, files, folders, isRunning, lastSyncTime,
          pendingChanges, isWatchingFiles, settings, fgDryRun, pc, work, log,
          calls, lastResult, now, hist, budget>>

engineVars == <<ts, os, isRunning, lastSyncTime, pendingChanges,
                isWatchingFiles, settings, fgDryRun>>

\* ------------------------------------------------------------------------
\* TodoistState
\* ------------------------------------------------------------------------
InitialToken == "*"

\* an entity array of a payload is a sequence of <<id, entity>>; the array
\* the remote service makes of a set of entities, in the order it picks
RECURSIVE AsArray(_)
AsArray(map) ==
  IF DOMAIN map = {} THEN << >>
  ELSE LET id == CHOOSE i \in DOMAIN map : TRUE
       IN <<<<id, map[id]>>>> \o AsArray(Del(map, id))

\* fault variant: only the first entity of an array is replayed
RECURSIVE ReplayMapFirstOnly(_, _)
ReplayMapFirstOnly(map, entries) ==
  IF entries = << >> THEN map
  ELSE LET e == Head(entries)
       IN IF e[2].is_deleted THEN Del(map, e[1]) ELSE Put(map, e[1], e[2])

\* fault variant: an entity marked deleted is passed over, not removed
RECURSIVE ReplayMapKeep(_, _)
ReplayMapKeep(map, entries) ==
  IF entries = << >> THEN map
  ELSE LET e == Head(entries)
       IN ReplayMapKeep(IF e[2].is_deleted THEN map ELSE Put(map, e[1], e[2]),
                        Tail(entries))

\* forEach over one entity array of a payload, in array order: delete the
\* entities marked deleted, set the others
RECURSIVE ReplayMap(_, _)
ReplayMap(map, entries) ==
  IF entries = << >> THEN map
  ELSE LET e == Head(entries)
       IN ReplayMap(IF e[2].is_deleted THEN Del(map, e[1]) ELSE Put(map, e[1], e[2]),
                    Tail(entries))

\* fault variant of updateFromSync: a full payload is merged into the maps
updateFromSyncMerge(st, syncResponse, t) ==
  [tasks |-> ReplayMap(st.tasks, syncResponse.items),
   projects |-> ReplayMap(st.projects, syncResponse.projects),
   sections |-> ReplayMap(st.sections, syncResponse.sections),
   labels |-> ReplayMap(st.labels, syncResponse.labels),
   syncToken |-> syncResponse.sync_token,
   lastFullSync |-> IF syncResponse.full_sync THEN t ELSE st.lastFullSync,
   lastIncrementalSync |-> t]

\* TodoistState.updateFromSync
updateFromSync(st, syncResponse, t) ==
  LET base == IF syncResponse.full_sync THEN EmptyMap ELSE st.tasks
      baseP == IF syncResponse.full_sync THEN EmptyMap ELSE st.projects
      baseS == IF syncResponse.full_sync THEN EmptyMap ELSE st.sections
  IN [tasks |-> ReplayMap(base, syncResponse.items),
      projects |-> ReplayMap(baseP, syncResponse.projects),
      sections |-> ReplayMap(baseS, syncResponse.sections),
      labels |-> ReplayMap(IF syncResponse.full_sync THEN EmptyMap ELSE st.labels,
                           syncResponse.labels),
      syncToken |-> syncResponse.sync_token,
      lastFullSync |-> IF syncResponse.full_sync THEN t ELSE st.lastFullSync,
      lastIncrementalSync |-> t]

\* fault variant of needsFullSync: stale from the 24th hour on
needsFullSyncAtAge(st, t) ==
  \/ st.syncToken = InitialToken
  \/ st.lastFullSync = 0
  \/ (t - st.lastFullSync) >= FullSyncMaxAge

\* TodoistState.needsFullSync
needsFullSync(st, t) ==
  \/ st.syncToken = InitialToken
  \/ st.lastFullSync = 0
  \/ (t - st.lastFullSync) > FullSyncMaxAge

\* TodoistState.getAllTasks / getAllProjects / getAllSections (ids returned)
getAllTasks(st) == {id \in DOMAIN st.tasks : ~st.tasks[id].is_deleted}
getAllProjects(st) ==
  {id \in DOMAIN st.projects :
     ~st.projects[id].is_deleted /\ ~st.projects[id].is_archived}
getAllSections(st) == {id \in DOMAIN st.sections : ~st.sections[id].is_deleted}
getAllLabels(st) == {id \in DOMAIN st.labels : ~st.labels[id].is_deleted}

\* ------------------------------------------------------------------------
\* ObsidianState
\* ------------------------------------------------------------------------
EmptyObsidianState ==
  [taskNotes |-> EmptyMap, projectNotes |-> EmptyMap, sectionNotes |-> EmptyMap,
   filePathToTodoistId |-> EmptyMap]

NotesField(kind) ==
  CASE kind = "task" -> "taskNotes"
    [] kind = "project" -> "projectNotes"
    [] kind = "section" -> "sectionNotes"

\* ObsidianState.setTaskNote / setProjectNote / setSectionNote
setNote(st, kind, id, note) ==
  [st EXCEPT ![NotesField(kind)] = Put(@, id, note),
             !.filePathToTodoistId = Put(@, note.filePath, id)]

\* ObsidianState.removeNote
removeNote(st, id) ==
  LET gone == {st[f][id].filePath :
                 f \in {g \in {"taskNotes", "projectNotes", "sectionNotes"} :
                          id \in DOMAIN st[g]}}
  IN [taskNotes |-> Del(st.taskNotes, id),
      projectNotes |-> Del(st.projectNotes, id),
      sectionNotes |-> Del(st.sectionNotes, id),
      filePathToTodoistId |->
        [p \in (DOMAIN st.filePathToTodoistId) \ gone |-> st.filePathToTodoistId[p]]]

\* file.basename of a path: the last segment without the extension
Basename(path) ==
  LET name == path[Len(path)]
      stem == SubSeq(name, 1, Len(name) - 1)
  IN IF name = << >> THEN name
     ELSE CASE name[Len(name)] \in {".md", ".txt"} -> stem
            [] name[Len(name)] = "_project.md" -> stem \o <<"_project">>
            [] name[Len(name)] = "_section.md" -> stem \o <<"_section">>
            [] OTHER -> name

\* ObsidianState.processFile: the note a scanned file yields
ScannedNote(path, doc) ==
  Note(path, doc.fm.todoist_id,
       IF doc.fm.title # NoTitle THEN doc.fm.title ELSE Basename(path),
       doc.fm, doc.mtime)

\* the type discriminator decides the map; task is the default
KindOf(doc) ==
  IF doc.fm.todoist_type \in {"project", "section"} THEN doc.fm.todoist_type ELSE "task"

\* ObsidianState.scanVault: rebuild from the files below the sync folder.
\* Files are visited in some folder order; when several files carry one id the
\* last one visited stays in the map, so the survivor is any of them.
ScanResults(fs, fds) ==
  IF SyncFolder \notin fds THEN {EmptyObsidianState}
  ELSE
    LET scoped == {p \in DOMAIN fs : fs[p].fm.todoist_id # NoId}
        ofKind(k) == {p \in scoped : KindOf(fs[p]) = k}
        idsOf(k) == {fs[p].fm.todoist_id : p \in ofKind(k)}
        choices(k) == {f \in [idsOf(k) -> ofKind(k)] :
                         \A id \in idsOf(k) : fs[f[id]].fm.todoist_id = id}
        notes(f) == [id \in DOMAIN f |-> ScannedNote(f[id], fs[f[id]])]
    IN {[taskNotes |-> notes(ft), projectNotes |-> notes(fp),
         sectionNotes |-> notes(fsec),
         filePathToTodoistId |-> [p \in scoped |-> fs[p].fm.todoist_id]] :
          ft \in choices("task"), fp \in choices("project"),
          fsec \in choices("section")}

\* ObsidianState.getModifiedSince (the note objects returned)
NotesOf(map) == {map[id] : id \in DOMAIN map}

\* fault variant: the filter reads the sync stamp of the frontmatter instead
\* of the modification time of the file
getModifiedSinceStamp(st, timestamp) ==
  [tasks |-> {n \in NotesOf(st.taskNotes) : n.frontmatter.last_sync > timestamp},
   projects |-> {n \in NotesOf(st.projectNotes) : n.frontmatter.last_sync > timestamp},
   sections |-> {n \in NotesOf(st.sectionNotes) : n.frontmatter.last_sync > timestamp}]

getModifiedSince(st, timestamp) ==
  [tasks |-> {n \in NotesOf(st.taskNotes) : n.lastModified > timestamp},
   projects |-> {n \in NotesOf(st.projectNotes) : n.lastModified > timestamp},
   sections |-> {n \in NotesOf(st.sectionNotes) : n.lastModified > timestamp}]

\* ------------------------------------------------------------------------
\* Initial state: a freshly constructed engine, an empty vault, a populated
\* remote workspace
\* ------------------------------------------------------------------------
IdleWork ==
  [drainIdx |-> 1, modT |-> {}, modP |-> {}, todo |-> {},
   projectMap |-> EmptyMap, sectionMap |-> EmptyMap, fetches |-> << >>]

NoResult == [op |-> "none", success |-> TRUE, message |-> "none"]

InitialServers ==
  {\* one project, one section, one task inside the section
   [projects |-> [p \in ProjectIds |-> ProjectRec(NameP)],
    sections |-> [x \in SectionIds |-> SectionRec(<<"s">>, "P1")],
    tasks |-> [t \in {"T1"} |-> TaskRec(TitleDot, 1, FALSE, "P1", "S1", 1)]],
   \* one project holding one task
   [projects |-> [p \in ProjectIds |-> ProjectRec(NameP)],
    sections |-> EmptyMap,
    tasks |-> [t \in {"T1"} |-> TaskRec(TitleDot, 1, FALSE, "P1", NoId, 1)]],
   \* one project holding two tasks with different titles
   [projects |-> [p \in ProjectIds |-> ProjectRec(NameP)],
    sections |-> EmptyMap,
    tasks |-> [t \in TaskIds |->
                 TaskRec(IF t = "T1" THEN TitleDot ELSE TitleQ, 1, FALSE, "P1", NoId, 1)]]}

Init ==
  /\ server \in InitialServers
  /\ serverDirty = {}
  /\ ts = [tasks |-> EmptyMap, projects |-> EmptyMap, sections |-> EmptyMap,
           labels |-> EmptyMap, syncToken |-> InitialToken, lastFullSync |-> 0, lastIncrementalSync |-> 0]
  /\ os = EmptyObsidianState
  /\ files = EmptyMap
  /\ folders = {}
  /\ isRunning = FALSE
  /\ lastSyncTime = 0
  /\ pendingChanges = << >>
  /\ isWatchingFiles \in BOOLEAN
  /\ settings = [tokenSet |-> TRUE, dryRunMode |-> FALSE]
  /\ fgDryRun = settings.dryRunMode
  /\ pc = [op \in Ops |-> "idle"]
  /\ work = IdleWork
  /\ log = << >>
  /\ calls = << >>
  /\ lastResult = NoResult
  /\ now = 1
  /\ hist = [tainted |-> FALSE, prevKind |-> "none", prevLog |-> << >>]
  /\ budget = [env |-> MaxEnv, calls |-> MaxCalls, fail |-> MaxFail]

\* ------------------------------------------------------------------------
\* Entry points: the single-flight guard
\* ------------------------------------------------------------------------
FirstPhase(op) ==
  CASE op = "performSync" -> "test"
    [] op = "fetchFromTodoist" -> "fetch"
    [] op = "scan" -> "scan"
    [] op = "pull" -> "fetch"

\* the phase that follows the fetch and the scan of each entry point
AfterFetch(op) == IF op = "fetchFromTodoist" THEN "finish" ELSE "scan"
AfterScan(op) ==
  CASE op = "scan" -> "finish"
    [] op = "pull" -> "recon"
    [] op = "performSync" -> "drain"

NeedsToken(op) == op # "scan"

\* fault variant: the entry point does not test isRunning
GuardOpen(op) == TRUE

\* if (this.isRunning) return { success: false, ... }
Guard(op) == ~isRunning

Failure(op, message) == [op |-> op, success |-> FALSE, message |-> message]
Rejected == [op |-> "any", success |-> FALSE, message |-> "Sync already in progress"]
Success(op) == [op |-> op, success |-> TRUE, message |-> "completed"]

\* a call that finds a run in flight
Reject(op) ==
  /\ ~Guard(op)
  /\ budget.calls > 0
  /\ budget' = [budget EXCEPT !.calls = @ - 1]
  /\ lastResult' = Rejected
  /\ UNCHANGED <<server, serverDirty, ts, os, files, folders, isRunning,
                 lastSyncTime, pendingChanges, isWatchingFiles, settings,
                 fgDryRun, pc, work, log, calls, now, hist>>

\* a call without a configured credential
NoToken(op) ==
  /\ Guard(op)
  /\ NeedsToken(op) /\ ~settings.tokenSet
  /\ budget.calls > 0
  /\ budget' = [budget EXCEPT !.calls = @ - 1]
  /\ lastResult' = Failure(op, "Todoist API token not configured")
  /\ UNCHANGED <<server, serverDirty, ts, os, files, folders, isRunning,
                 lastSyncTime, pendingChanges, isWatchingFiles, settings,
                 fgDryRun, pc, work, log, calls, now, hist>>

\* an accepted call: this.isRunning = true, up to the first await
Start(op) ==
  /\ Guard(op)
  /\ NeedsToken(op) => settings.tokenSet
  /\ budget.calls > 0
  /\ isRunning' = TRUE
  /\ pc' = [pc EXCEPT ![op] = FirstPhase(op)]
  /\ work' = IdleWork
  /\ log' = << >>
  /\ calls' = << >>
  /\ lastResult' = NoResult
  /\ hist' = [hist EXCEPT !.tainted = FALSE]
  /\ budget' = [budget EXCEPT !.calls = @ - 1]
  /\ UNCHANGED <<server, serverDirty, ts, os, files, folders, lastSyncTime,
                 pendingChanges, isWatchingFiles, settings, fgDryRun, now>>

\* catch + finally of an entry point: the run ends with a failure outcome
Abort(op, message) ==
  /\ isRunning' = FALSE
  /\ pc' = [pc EXCEPT ![op] = "idle"]
  /\ lastResult' = Failure(op, message)
  /\ hist' = [hist EXCEPT !.prevKind = "none", !.prevLog = << >>]

\* the environment makes one request or storage operation fail
InjectFailure ==
  /\ budget.fail > 0
  /\ budget' = [budget EXCEPT !.fail = @ - 1]

\* fault variant: the result of testConnection is not looked at
TestConnectionUnchecked ==
  /\ pc["performSync"] = "test"
  /\ \/ UNCHANGED budget
     \/ InjectFailure
  /\ pc' = [pc EXCEPT !["performSync"] = "fetch"]
  /\ UNCHANGED <<server, serverDirty, ts, os, files, folders, lastSyncTime,
                 pendingChanges, isWatchingFiles, settings, fgDryRun, work,
                 log, calls, now, isRunning, lastResult, hist>>

\* performSync: await this.todoistAPI.testConnection()
TestConnection ==
  /\ pc["performSync"] = "test"
  /\ \/ /\ pc' = [pc EXCEPT !["performSync"] = "fetch"]
        /\ UNCHANGED <<isRunning, lastResult, hist, budget>>
     \/ /\ InjectFailure
        /\ Abort("performSync", "Failed to connect to Todoist API")
  /\ UNCHANGED <<server, serverDirty, ts, os, files, folders, lastSyncTime,
                 pendingChanges, isWatchingFiles, settings, fgDryRun, work,
                 log, calls, now>>

\* ------------------------------------------------------------------------
\* Step 1: syncFromTodoist
\* ------------------------------------------------------------------------
\* what the Sync API answers for a token: the entities changed since it
IncrementalPayload ==
  LET entries(kind, map) ==
        AsArray([id \in {d[2] : d \in {e \in serverDirty : e[1] = kind}} |->
                   IF id \in DOMAIN map THEN map[id] ELSE Tombstone])
  IN [sync_token |-> "sync", full_sync |-> FALSE,
      items |-> entries("task", server.tasks),
      projects |-> entries("project", server.projects),
      sections |-> entries("section", server.sections),
      labels |-> << >>]

\* the mockSyncResponse built from the four REST answers
FullPayload(projects, tasks, sections) ==
  [sync_token |-> "rest", full_sync |-> TRUE,
   items |-> tasks, projects |-> projects, sections |-> sections, labels |-> << >>]

TaintIf(cond) == [hist EXCEPT !.tainted = @ \/ cond]

\* the requests of syncFromTodoist so far in this run: which fetch, and the
\* request of it that failed ("none" when all were answered)
Fetched(kind, failed) ==
  [work EXCEPT !.fetches = Append(@, [kind |-> kind, failed |-> failed])]

\* fault variant: a failed incremental fetch ends the run, without fallback
FetchIncrementalNoFallback(op) ==
  /\ pc[op] = "fetch"
  /\ ~needsFullSync(ts, now) /\ ts.syncToken # InitialToken
  /\ \/ /\ ts' = updateFromSync(ts, IncrementalPayload, now)
        /\ serverDirty' = {}
        /\ pc' = [pc EXCEPT ![op] = AfterFetch(op)]
        /\ work' = Fetched("incremental", "none")
        /\ UNCHANGED <<hist, budget, isRunning, lastResult>>
     \/ /\ InjectFailure
        /\ Abort(op, "Todoist API error")
        /\ work' = Fetched("incremental", "sync")
        /\ UNCHANGED <<ts, serverDirty>>
  /\ UNCHANGED <<server, os, files, folders, lastSyncTime,
                 pendingChanges, isWatchingFiles, settings, fgDryRun,
                 log, calls, now>>

\* the incremental attempt: todoistAPI.sync(syncToken, ['all'])
FetchIncremental(op) ==
  /\ pc[op] = "fetch"
  /\ ~needsFullSync(ts, now) /\ ts.syncToken # InitialToken
  /\ \/ /\ ts' = updateFromSync(ts, IncrementalPayload, now)
        /\ serverDirty' = {}
        /\ pc' = [pc EXCEPT ![op] = AfterFetch(op)]
        /\ work' = Fetched("incremental", "none")
        /\ UNCHANGED <<hist, budget>>
     \/ /\ InjectFailure
        /\ pc' = [pc EXCEPT ![op] = "full"]
        /\ work' = Fetched("incremental", "sync")
        /\ hist' = TaintIf(TRUE)
        /\ UNCHANGED <<ts, serverDirty>>
  /\ UNCHANGED <<server, os, files, folders, isRunning, lastSyncTime,
                 pendingChanges, isWatchingFiles, settings, fgDryRun,
                 log, calls, lastResult, now>>

\* the REST fetch: getProjects and getTasks swallow their errors and return
\* [], getSections and getLabels throw
FetchFull(op) ==
  /\ \/ pc[op] = "full"
     \/ pc[op] = "fetch" /\ (needsFullSync(ts, now) \/ ts.syncToken = InitialToken)
  /\ \/ /\ ts' = updateFromSync(ts, FullPayload(AsArray(server.projects), AsArray(server.tasks),
                                                AsArray(server.sections)), now)
        /\ serverDirty' = {}
        /\ pc' = [pc EXCEPT ![op] = AfterFetch(op)]
        /\ work' = Fetched("full", "none")
        /\ UNCHANGED <<isRunning, lastResult, hist, budget>>
     \/ /\ InjectFailure
        /\ \E lost \in {"projects", "tasks"} :
             /\ ts' = updateFromSync(ts,
                     FullPayload(IF lost = "projects" THEN << >> ELSE AsArray(server.projects),
                                 IF lost = "tasks" THEN << >> ELSE AsArray(server.tasks),
                                 AsArray(server.sections)), now)
             /\ work' = Fetched("full", lost)
        /\ serverDirty' = {}
        /\ pc' = [pc EXCEPT ![op] = AfterFetch(op)]
        /\ hist' = TaintIf(TRUE)
        /\ UNCHANGED <<isRunning, lastResult>>
     \/ /\ InjectFailure
        /\ \E lost \in {"sections", "labels"} : work' = Fetched("full", lost)
        /\ Abort(op, "Todoist API error")
        /\ UNCHANGED <<ts, serverDirty>>
  /\ UNCHANGED <<server, os, files, folders, lastSyncTime, pendingChanges,
                 isWatchingFiles, settings, fgDryRun, log, calls, now>>

\* ------------------------------------------------------------------------
\* Step 2: scanObsidianChanges
\* ------------------------------------------------------------------------
Scan(op) ==
  /\ pc[op] = "scan"
  /\ os' \in ScanResults(files, folders)
  /\ pc' = [pc EXCEPT ![op] = AfterScan(op)]
  /\ UNCHANGED <<server, serverDirty, ts, files, folders, isRunning,
                 lastSyncTime, pendingChanges, isWatchingFiles, settings,
                 fgDryRun, work, log, calls, lastResult, now, hist, budget>>

\* ------------------------------------------------------------------------
\* Vault events delivered to the engine (main.ts: vault.on('modify' / 'delete'))
\* ------------------------------------------------------------------------
InQueue(pend, path) == \E i \in 1..Len(pend) : pend[i] = path

\* SyncEngine.onFileModified: Map.set keeps the position of a key it holds
onFileModified(pend, watching, path) ==
  IF watching /\ ~InQueue(pend, path) THEN Append(pend, path) ELSE pend

\* SyncEngine.onFileDeleted
onFileDeleted(st, path) ==
  IF path \in DOMAIN st.filePathToTodoistId
  THEN removeNote(st, st.filePathToTodoistId[path])
  ELSE st

\* ------------------------------------------------------------------------
\* Step 3: syncToTodoist (local -> remote)
\* ------------------------------------------------------------------------
NoPath == << <<"null">> >>

Call(api, id, content, priority, name) ==
  [api |-> api, id |-> id, content |-> content, priority |-> priority, name |-> name]

\* the close / reopen call of syncTaskChangesToTodoist, if any
CompletionCalls(existingTask, id, completed) ==
  IF completed # existingTask.checked
  THEN <<Call(IF completed THEN "closeTask" ELSE "reopenTask", id, NoTitle, NoPriority, NoTitle)>>
  ELSE << >>

\* the updates object of syncTaskChangesToTodoist, as an updateTask call if non-empty
UpdateCalls(existingTask, id, title, priority) ==
  LET content == IF title # NoTitle /\ title # existingTask.content THEN title ELSE NoTitle
      prio == IF priority # NoPriority /\ priority # existingTask.priority
              THEN priority ELSE NoPriority
  IN IF content # NoTitle \/ prio # NoPriority
     THEN <<Call("updateTask", id, content, prio, NoTitle)>>
     ELSE << >>

\* what the remote service does with an accepted call
ApplyCall(srv, c) ==
  IF c.id \notin DOMAIN srv.tasks THEN srv
  ELSE CASE c.api = "closeTask" -> [srv EXCEPT !.tasks[c.id].checked = TRUE]
         [] c.api = "reopenTask" -> [srv EXCEPT !.tasks[c.id].checked = FALSE]
         [] OTHER ->
              [srv EXCEPT !.tasks[c.id].content = IF c.content # NoTitle THEN c.content ELSE @,
                          !.tasks[c.id].priority = IF c.priority # NoPriority THEN c.priority ELSE @]

RECURSIVE ApplyCalls(_, _)
ApplyCalls(srv, cs) ==
  IF cs = << >> THEN srv ELSE ApplyCalls(ApplyCall(srv, Head(cs)), Tail(cs))

NoPush == [issued |-> << >>, accepted |-> << >>, stamp |-> FALSE, fails |-> 0]

\* SyncEngine.syncTaskChangesToTodoist: the possible outcomes of one call.
\* closeTask / reopenTask swallow a failed request, updateTask throws into
\* the catch of syncTaskChangesToTodoist.
syncTaskChangesToTodoist(st, dry, id, completed, title, priority) ==
  IF id \notin DOMAIN st.tasks THEN {NoPush}
  ELSE
    LET e == st.tasks[id]
        cc == CompletionCalls(e, id, completed)
        uc == UpdateCalls(e, id, title, priority)
    IN IF dry \/ (cc = << >> /\ uc = << >>) THEN {NoPush}
       ELSE {[issued |-> cc \o uc,
              accepted |-> (IF okC THEN cc ELSE << >>) \o (IF okU THEN uc ELSE << >>),
              stamp |-> (uc = << >> \/ okU),
              fails |-> (IF cc # << >> /\ ~okC THEN 1 ELSE 0)
                        + (IF uc # << >> /\ ~okU THEN 1 ELSE 0)] :
               okC \in {ok \in BOOLEAN : ok \/ cc # << >>},
               okU \in {ok \in BOOLEAN : ok \/ uc # << >>}}

\* fault variant: the project update is posted under dry-run too
syncProjectChangesNoDryRun(st, dry, id, title) ==
  IF id \notin DOMAIN st.projects THEN {NoPush}
  ELSE IF title = NoTitle \/ title = st.projects[id].name THEN {NoPush}
  ELSE {[issued |-> <<Call("updateTask", id, NoTitle, NoPriority, title)>>,
         accepted |-> << >>, stamp |-> FALSE, fails |-> f] : f \in {0, 1}}

\* SyncEngine.syncProjectChangesToTodoist (it posts through updateTask)
syncProjectChangesToTodoist(st, dry, id, title) ==
  IF id \notin DOMAIN st.projects THEN {NoPush}
  ELSE IF title = NoTitle \/ title = st.projects[id].name \/ dry THEN {NoPush}
  ELSE {[issued |-> <<Call("updateTask", id, NoTitle, NoPriority, title)>>,
         accepted |-> << >>, stamp |-> FALSE, fails |-> f] : f \in {0, 1}}

\* FrontmatterParser.extractTaskChanges / extractProjectChanges applied to a
\* file: completion comes from the checkbox markers of the body
extractTaskChanges(doc) ==
  [todoist_id |-> IF KindOf(doc) = "task" THEN doc.fm.todoist_id ELSE NoId,
   completed |-> doc.checkbox, title |-> doc.fm.title, priority |-> doc.fm.priority]

extractProjectChanges(doc) ==
  [todoist_id |-> IF doc.fm.todoist_type = "project" THEN doc.fm.todoist_id ELSE NoId,
   title |-> doc.fm.title]

\* SyncEngine.processFileChange: outcomes for one path
processFileChange(st, fs, dry, path) ==
  IF path \notin DOMAIN fs THEN {NoPush}
  ELSE IF fs[path].fm.todoist_id = NoId THEN {NoPush}
  ELSE LET tc == extractTaskChanges(fs[path])
           pcg == extractProjectChanges(fs[path])
       IN IF tc.todoist_id # NoId
          THEN syncTaskChangesToTodoist(st, dry, tc.todoist_id, tc.completed, tc.title, tc.priority)
          ELSE IF pcg.todoist_id # NoId
          THEN syncProjectChangesToTodoist(st, dry, pcg.todoist_id, pcg.title)
          ELSE {NoPush}

\* SyncEngine.updateFileSyncTimestamp
Stamp(doc, t) ==
  [doc EXCEPT !.fm.last_sync = t, !.fm.sync_status = "synced", !.mtime = t]

\* the effects of one push outcome on the remote service and on the vault;
\* path = NoPath is the null file handed over by syncTaskToTodoist
ApplyPush(out, path) ==
  /\ budget.fail >= out.fails
  /\ calls' = calls \o out.issued
  /\ server' = ApplyCalls(server, out.accepted)
  /\ serverDirty' = serverDirty \cup {<<"task", out.accepted[i].id>> : i \in 1..Len(out.accepted)}
  /\ \/ /\ out.stamp /\ path \in DOMAIN files
        /\ files' = [files EXCEPT ![path] = Stamp(@, now)]
        /\ pendingChanges' = onFileModified(pendingChanges, isWatchingFiles, path)
        /\ budget' = [budget EXCEPT !.fail = @ - out.fails]
     \/ /\ out.stamp /\ path \in DOMAIN files
        /\ budget.fail > out.fails
        /\ budget' = [budget EXCEPT !.fail = @ - (out.fails + 1)]
        /\ UNCHANGED <<files, pendingChanges>>
     \/ /\ ~(out.stamp /\ path \in DOMAIN files)
        /\ budget' = [budget EXCEPT !.fail = @ - out.fails]
        /\ UNCHANGED <<files, pendingChanges>>

\* processPendingChanges inside a run: one entry of the queue
DrainStep ==
  /\ pc["performSync"] = "drain"
  /\ work.drainIdx <= Len(pendingChanges)
  /\ LET path == pendingChanges[work.drainIdx]
     IN \E out \in processFileChange(ts, files, settings.dryRunMode, path) :
          ApplyPush(out, path)
  /\ work' = [work EXCEPT !.drainIdx = @ + 1]
  /\ hist' = TaintIf(budget'.fail # budget.fail)
  /\ UNCHANGED <<ts, os, folders, isRunning, lastSyncTime, isWatchingFiles,
                 settings, fgDryRun, pc, log, lastResult, now>>

\* the end of processPendingChanges (pendingChanges.clear()), then the
\* safety net: getModifiedSince(lastSyncTime)
DrainEnd ==
  /\ pc["performSync"] = "drain"
  /\ work.drainIdx > Len(pendingChanges)
  /\ pendingChanges' = << >>
  /\ LET modified == getModifiedSince(os, lastSyncTime)
     IN /\ work' = [work EXCEPT !.modT = modified.tasks, !.modP = modified.projects]
        /\ pc' = [pc EXCEPT !["performSync"] =
                    IF modified.tasks = {} /\ modified.projects = {} THEN "recon" ELSE "net"]
  /\ UNCHANGED <<server, serverDirty, ts, os, files, folders, isRunning,
                 lastSyncTime, isWatchingFiles, settings, fgDryRun, log, calls,
                 lastResult, now, hist, budget>>

NetPhaseAfter(modT, modP) == IF modT = {} /\ modP = {} THEN "recon" ELSE "net"

\* fault variant: the pushed change is written into Remote State as well
NetTaskWriteBack ==
  /\ pc["performSync"] = "net"
  /\ \E taskNote \in work.modT :
       /\ LET fm == taskNote.frontmatter
          IN \E out \in syncTaskChangesToTodoist(ts, settings.dryRunMode,
                          taskNote.todoistId, fm.completed, fm.title, fm.priority) :
               /\ ApplyPush(out, NoPath)
               /\ ts' = ApplyCalls(ts, out.accepted)
       /\ work' = [work EXCEPT !.modT = @ \ {taskNote}]
       /\ pc' = [pc EXCEPT !["performSync"] = NetPhaseAfter(work.modT \ {taskNote}, work.modP)]
  /\ hist' = TaintIf(budget'.fail # budget.fail)
  /\ UNCHANGED <<os, folders, isRunning, lastSyncTime, isWatchingFiles,
                 settings, fgDryRun, log, lastResult, now>>

\* syncTaskToTodoist for one modified task note
NetTask ==
  /\ pc["performSync"] = "net"
  /\ \E taskNote \in work.modT :
       /\ LET fm == taskNote.frontmatter
          IN \E out \in syncTaskChangesToTodoist(ts, settings.dryRunMode,
                          taskNote.todoistId, fm.completed, fm.title, fm.priority) :
               ApplyPush(out, NoPath)
       /\ work' = [work EXCEPT !.modT = @ \ {taskNote}]
       /\ pc' = [pc EXCEPT !["performSync"] = NetPhaseAfter(work.modT \ {taskNote}, work.modP)]
  /\ hist' = TaintIf(budget'.fail # budget.fail)
  /\ UNCHANGED <<ts, os, folders, isRunning, lastSyncTime, isWatchingFiles,
                 settings, fgDryRun, log, lastResult, now>>

\* syncProjectToTodoist for one modified project note
NetProject ==
  /\ pc["performSync"] = "net"
  /\ work.modT = {}
  /\ \E projectNote \in work.modP :
       /\ \E out \in syncProjectChangesToTodoist(ts, settings.dryRunMode,
                       projectNote.todoistId, projectNote.frontmatter.title) :
            ApplyPush(out, NoPath)
       /\ work' = [work EXCEPT !.modP = @ \ {projectNote}]
       /\ pc' = [pc EXCEPT !["performSync"] = NetPhaseAfter({}, work.modP \ {projectNote})]
  /\ hist' = TaintIf(budget'.fail # budget.fail)
  /\ UNCHANGED <<ts, os, folders, isRunning, lastSyncTime, isWatchingFiles,
                 settings, fgDryRun, log, lastResult, now>>

\* ------------------------------------------------------------------------
\* FileGenerator: materializing one entity
\* ------------------------------------------------------------------------
TaskFile(title) == sanitizeFileName(title) \o <<".md">>

\* FileGenerator.buildTaskFrontmatter (every enabledProperties toggle on)
buildTaskFrontmatter(id, task, projectName, t) ==
  Frontmatter(id, "task", task.content, task.priority, task.checked,
              "", FALSE, projectName, t)

\* FileGenerator.buildProjectFrontmatter
buildProjectFrontmatter(id, project, t) ==
  Frontmatter(id, "project", project.name, NoPriority, FALSE,
              project.color, project.is_favorite, NoTitle, t)

\* FileGenerator.buildSectionFrontmatter
buildSectionFrontmatter(id, section, t) ==
  Frontmatter(id, "section", section.name, NoPriority, FALSE,
              "", FALSE, <<section.project_id>>, t)

\* the path createOrUpdateTaskNote writes to
TaskNotePath(task, projectName, sectionName, existingFilePath) ==
  IF existingFilePath # NoPath THEN existingFilePath
  ELSE getTaskFolderPath(projectName, sectionName) \o <<TaskFile(task.content)>>

\* the path createOrUpdateProjectNote writes to
ProjectNotePath(project) == <<sanitizeFileName(project.name)>> \o ProjectFile

\* the path createOrUpdateSectionNote writes to
SectionNotePath(section, projectName) ==
  <<sanitizeFileName(projectName), sanitizeFileName(section.name)>> \o SectionFile

\* ensureSyncFolder and the createFolder of the entity's folder: both run
\* before the dry-run test of createOrUpdate*Note
EnsureFolders(fds, filePath) == fds \cup WithAncestors(ParentFolder(filePath))

\* fault variant: the write does not look at the dry-run flag
MaterializeAlways(filePath, fm, name, ok) ==
  /\ folders' = EnsureFolders(folders, filePath)
  /\ IF ~ok
     THEN UNCHANGED <<files, pendingChanges>>
     ELSE /\ files' = Put(files, filePath, Doc(fm, FALSE, now))
          /\ pendingChanges' =
               IF filePath \in DOMAIN files
               THEN onFileModified(pendingChanges, isWatchingFiles, filePath)
               ELSE pendingChanges

\* createOrUpdate*Note: folders first, then (unless dry-run) vault.modify on
\* an existing file or vault.create; the write may fail and throw.
\* Yields the note handed back to the caller.
Materialize(filePath, fm, name, ok) ==
  /\ folders' = EnsureFolders(folders, filePath)
  /\ IF fgDryRun \/ ~ok
     THEN UNCHANGED <<files, pendingChanges>>
     ELSE /\ files' = Put(files, filePath, Doc(fm, FALSE, now))
          /\ pendingChanges' =
               IF filePath \in DOMAIN files
               THEN onFileModified(pendingChanges, isWatchingFiles, filePath)
               ELSE pendingChanges

MaterializedNote(filePath, fm, name) == Note(filePath, fm.todoist_id, name, fm, now)

\* ------------------------------------------------------------------------
\* Step 4: reconcileStates (remote -> local)
\* ------------------------------------------------------------------------
\* SyncEngine.parseLastSyncTime
parseLastSyncTime(lastSync) ==
  IF lastSync = NoSync THEN 0
  ELSE IF lastSync = BadSync THEN 0 ELSE lastSync

Entry(kind, id, result) == [kind |-> kind, id |-> id, result |-> result]

\* fault variant of reconcileProject: only the name is compared
ProjectDecisionNameOnly(st, id, project) ==
  IF id \notin DOMAIN st.projectNotes THEN "created"
  ELSE IF st.projectNotes[id].name # project.name THEN "updated" ELSE "skipped"

\* reconcileProject: 'created', 'updated' or 'skipped'
ProjectDecision(st, id, project) ==
  IF id \notin DOMAIN st.projectNotes THEN "created"
  ELSE LET existingNote == st.projectNotes[id]
       IN IF \/ existingNote.name # project.name
             \/ existingNote.frontmatter.color # project.color
             \/ existingNote.frontmatter.is_favorite # project.is_favorite
          THEN "updated" ELSE "skipped"

\* reconcileSection
SectionDecision(st, id, section) ==
  IF id \notin DOMAIN st.sectionNotes THEN "created"
  ELSE IF st.sectionNotes[id].name # section.name THEN "updated" ELSE "skipped"

\* fault variant: a task as old as the document's stamp counts as newer
TaskDecisionNotStrict(st, id, task) ==
  IF id \notin DOMAIN st.taskNotes THEN "created"
  ELSE IF task.date_added >= parseLastSyncTime(st.taskNotes[id].frontmatter.last_sync)
  THEN "updated" ELSE "skipped"

\* reconcileTask
TaskDecision(st, id, task) ==
  IF id \notin DOMAIN st.taskNotes THEN "created"
  ELSE IF task.date_added > parseLastSyncTime(st.taskNotes[id].frontmatter.last_sync)
  THEN "updated" ELSE "skipped"

\* the existingFilePath argument reconcileTask hands to createOrUpdateTaskNote
TaskExistingPath(st, id) ==
  IF id \in DOMAIN st.taskNotes THEN st.taskNotes[id].filePath ELSE NoPath

\* fault variant: the task loop runs before the section loop
LevelsTasksEarly == <<"recP", "recT", "recS">>

\* the levels of reconcileStates in the order of its three loops
Levels == <<"recP", "recS", "recT">>

\* the entities the loop of a level reconciles
LevelTodo(level, projectMap) ==
  CASE level = "recP" -> getAllProjects(ts)
    [] level = "recS" -> {id \in getAllSections(ts) :
                            ts.sections[id].project_id \in DOMAIN projectMap}
    [] level = "recT" -> getAllTasks(ts)

\* where the pass continues once the loop of level number n has nothing left
RECURSIVE Continue(_, _)
Continue(n, projectMap) ==
  IF n > Len(Levels) THEN [pc |-> "finish", todo |-> {}]
  ELSE IF LevelTodo(Levels[n], projectMap) # {}
  THEN [pc |-> Levels[n], todo |-> LevelTodo(Levels[n], projectMap)]
  ELSE Continue(n + 1, projectMap)

LevelNumber(level) == CHOOSE n \in 1..Len(Levels) : Levels[n] = level

After(level, todo, projectMap) ==
  IF todo # {} THEN [pc |-> level, todo |-> todo]
  ELSE Continue(LevelNumber(level) + 1, projectMap)

IsReconcileOp(op) == op \in {"performSync", "pull"}

RecBegin(op) ==
  /\ IsReconcileOp(op)
  /\ pc[op] = "recon"
  /\ LET next == Continue(1, EmptyMap)
     IN /\ pc' = [pc EXCEPT ![op] = next.pc]
        /\ work' = [work EXCEPT !.todo = next.todo, !.projectMap = EmptyMap,
                                !.sectionMap = EmptyMap]
  /\ UNCHANGED <<server, serverDirty, ts, os, files, folders, isRunning,
                 lastSyncTime, pendingChanges, isWatchingFiles, settings,
                 fgDryRun, log, calls, lastResult, now, hist, budget>>

\* one iteration of a loop of reconcileStates: the decision, the write and
\* the Local State update, or the exception of a failed write
ReconcileOne(op, kind, id, result, filePath, fm, name, projectMap, sectionMap) ==
  \/ /\ result = "skipped"
     /\ log' = Append(log, Entry(kind, id, result))
     /\ work' = [work EXCEPT !.todo = After(pc[op], work.todo \ {id}, projectMap).todo,
                             !.projectMap = projectMap, !.sectionMap = sectionMap]
     /\ pc' = [pc EXCEPT ![op] = After(pc[op], work.todo \ {id}, projectMap).pc]
     /\ UNCHANGED <<os, files, folders, pendingChanges, isRunning, lastResult,
                    hist, budget>>
  \/ /\ result # "skipped"
     /\ Materialize(filePath, fm, name, TRUE)
     /\ os' = setNote(os, kind, id, MaterializedNote(filePath, fm, name))
     /\ log' = Append(log, Entry(kind, id, result))
     /\ work' = [work EXCEPT !.todo = After(pc[op], work.todo \ {id}, projectMap).todo,
                             !.projectMap = projectMap, !.sectionMap = sectionMap]
     /\ pc' = [pc EXCEPT ![op] = After(pc[op], work.todo \ {id}, projectMap).pc]
     /\ UNCHANGED <<isRunning, lastResult, hist, budget>>
  \/ /\ result # "skipped"
     /\ ~fgDryRun
     /\ InjectFailure
     /\ Materialize(filePath, fm, name, FALSE)
     /\ Abort(op, "storage error")
     /\ UNCHANGED <<os, log, work>>

RecProject(op) ==
  /\ IsReconcileOp(op)
  /\ pc[op] = "recP"
  /\ \E id \in work.todo :
       LET project == ts.projects[id]
       IN ReconcileOne(op, "project", id, ProjectDecision(os, id, project),
                       ProjectNotePath(project),
                       buildProjectFrontmatter(id, project, now), project.name,
                       Put(work.projectMap, id, project.name), work.sectionMap)
  /\ UNCHANGED <<server, serverDirty, ts, lastSyncTime, isWatchingFiles,
                 settings, fgDryRun, calls, now>>

RecSection(op) ==
  /\ IsReconcileOp(op)
  /\ pc[op] = "recS"
  /\ \E id \in work.todo :
       LET section == ts.sections[id]
           projectName == work.projectMap[section.project_id]
       IN ReconcileOne(op, "section", id, SectionDecision(os, id, section),
                       SectionNotePath(section, projectName),
                       buildSectionFrontmatter(id, section, now), section.name,
                       work.projectMap, Put(work.sectionMap, id, section.name))
  /\ UNCHANGED <<server, serverDirty, ts, lastSyncTime, isWatchingFiles,
                 settings, fgDryRun, calls, now>>

Lookup(map, key) == IF key \in DOMAIN map THEN map[key] ELSE NoTitle

RecTask(op) ==
  /\ IsReconcileOp(op)
  /\ pc[op] = "recT"
  /\ \E id \in work.todo :
       LET task == ts.tasks[id]
           projectName == Lookup(work.projectMap, task.project_id)
           sectionName == Lookup(work.sectionMap, task.section_id)
       IN ReconcileOne(op, "task", id, TaskDecision(os, id, task),
                       TaskNotePath(task, projectName, sectionName, TaskExistingPath(os, id)),
                       buildTaskFrontmatter(id, task, projectName, now), task.content,
                       work.projectMap, work.sectionMap)
  /\ UNCHANGED <<server, serverDirty, ts, lastSyncTime, isWatchingFiles,
                 settings, fgDryRun, calls, now>>

\* the tail of an entry point: lastSyncTime = Date.now(), finally
Finish(op) ==
  /\ pc[op] = "finish"
  /\ lastSyncTime' = now
  /\ isRunning' = FALSE
  /\ pc' = [pc EXCEPT ![op] = "idle"]
  /\ lastResult' = Success(op)
  /\ work' = IdleWork
  /\ hist' = IF ~IsReconcileOp(op) THEN hist
             ELSE IF hist.tainted THEN [hist EXCEPT !.prevKind = "none", !.prevLog = << >>]
             ELSE [hist EXCEPT !.prevKind = IF fgDryRun THEN "dry" ELSE "real",
                               !.prevLog = log]
  /\ UNCHANGED <<server, serverDirty, ts, os, files, folders, pendingChanges,
                 isWatchingFiles, settings, fgDryRun, log, calls, now, budget>>

\* ------------------------------------------------------------------------
\* The environment: the remote service's other clients, the user editing the
\* vault, the settings tab
\* ------------------------------------------------------------------------
\* an environment event takes time and ends the "nothing changed" streak;
\* under Spec the environment acts between the runs
EnvEvent ==
  /\ ~isRunning
  /\ budget.env > 0
  /\ budget' = [budget EXCEPT !.env = @ - 1]
  /\ now' = now + 1
  /\ hist' = [tainted |-> TRUE, prevKind |-> "none", prevLog |-> << >>]

RemoteRenameProject ==
  /\ EnvEvent
  /\ \E id \in DOMAIN server.projects :
     \E name \in ProjectNames \ {server.projects[id].name} :
       /\ server' = [server EXCEPT !.projects[id].name = name]
       /\ serverDirty' = serverDirty \cup {<<"project", id>>}
  /\ UNCHANGED <<ts, os, files, folders, isRunning, lastSyncTime, pendingChanges,
                 isWatchingFiles, settings, fgDryRun, pc, work, log, calls, lastResult>>

RemoteEditTask ==
  /\ EnvEvent
  /\ \E id \in DOMAIN server.tasks :
       /\ \/ \E title \in Titles \ {server.tasks[id].content} :
               server' = [server EXCEPT !.tasks[id].content = title]
          \/ server' = [server EXCEPT !.tasks[id].checked = ~@]
          \/ \E p \in Priorities \ {server.tasks[id].priority} :
               server' = [server EXCEPT !.tasks[id].priority = p]
       /\ serverDirty' = serverDirty \cup {<<"task", id>>}
  /\ UNCHANGED <<ts, os, files, folders, isRunning, lastSyncTime, pendingChanges,
                 isWatchingFiles, settings, fgDryRun, pc, work, log, calls, lastResult>>

\* the frontmatters and bodies one user edit of a document can leave
UserEdits(doc) ==
  IF KindOf(doc) = "task"
  THEN {[doc EXCEPT !.fm.title = t] : t \in Titles \ {doc.fm.title}}
       \cup {[doc EXCEPT !.fm.priority = p] : p \in Priorities \ {doc.fm.priority}}
       \cup {[doc EXCEPT !.fm.completed = ~@], [doc EXCEPT !.checkbox = ~@]}
       \cup {[doc EXCEPT !.fm.last_sync = x] : x \in {NoSync, BadSync} \ {doc.fm.last_sync}}
  ELSE IF KindOf(doc) = "project"
  THEN {[doc EXCEPT !.fm.title = t] : t \in ProjectNames \ {doc.fm.title}}
  ELSE {}

\* the user saves a document (vault 'modify' event -> onFileModified)
UserEdit ==
  /\ EnvEvent
  /\ \E path \in DOMAIN files :
       \E edited \in UserEdits(files[path]) :
         /\ files' = [files EXCEPT ![path] = [edited EXCEPT !.mtime = now + 1]]
         /\ pendingChanges' = onFileModified(pendingChanges, isWatchingFiles, path)
  /\ UNCHANGED <<server, serverDirty, ts, os, folders, isRunning, lastSyncTime,
                 isWatchingFiles, settings, fgDryRun, pc, work, log, calls, lastResult>>

\* the user deletes a document (vault 'delete' event -> onFileDeleted)
UserDelete ==
  /\ EnvEvent
  /\ \E path \in DOMAIN files :
       /\ files' = Del(files, path)
       /\ os' = onFileDeleted(os, path)
  /\ UNCHANGED <<server, serverDirty, ts, folders, isRunning, lastSyncTime,
                 pendingChanges, isWatchingFiles, settings, fgDryRun, pc, work,
                 log, calls, lastResult>>

\* more than the staleness threshold of needsFullSync passes between two runs
TimePasses ==
  /\ ~isRunning
  /\ budget.env > 0
  /\ budget' = [budget EXCEPT !.env = @ - 1]
  /\ now' = now + FullSyncMaxAge + 1
  /\ hist' = [tainted |-> TRUE, prevKind |-> "none", prevLog |-> << >>]
  /\ UNCHANGED <<server, serverDirty, ts, os, files, folders, isRunning,
                 lastSyncTime, pendingChanges, isWatchingFiles, settings,
                 fgDryRun, pc, work, log, calls, lastResult>>

\* SyncEngine.updateSettings (settings tab, dry-run command of main.ts)
updateSettings ==
  /\ ~isRunning
  /\ budget.env > 0
  /\ budget' = [budget EXCEPT !.env = @ - 1]
  /\ \E newSettings \in {[settings EXCEPT !.tokenSet = ~@],
                        [settings EXCEPT !.dryRunMode = ~@]} :
       /\ settings' = newSettings
       /\ fgDryRun' = newSettings.dryRunMode
  /\ hist' = TaintIf(isRunning)
  /\ UNCHANGED <<server, serverDirty, ts, os, files, folders, isRunning,
                 lastSyncTime, pendingChanges, isWatchingFiles, pc, work, log,
                 calls, lastResult, now>>

\* ------------------------------------------------------------------------
\* Specification
\* ------------------------------------------------------------------------
Next ==
  \/ \E op \in Ops : Reject(op)
  \/ \E op \in Ops : NoToken(op)
  \/ \E op \in Ops : Start(op)
  \/ TestConnection
  \/ \E op \in Ops : FetchIncremental(op)
  \/ \E op \in Ops : FetchFull(op)
  \/ \E op \in Ops : Scan(op)
  \/ DrainStep
  \/ DrainEnd
  \/ NetTask
  \/ NetProject
  \/ \E op \in Ops : RecBegin(op)
  \/ \E op \in Ops : RecProject(op)
  \/ \E op \in Ops : RecSection(op)
  \/ \E op \in Ops : RecTask(op)
  \/ \E op \in Ops : Finish(op)
  \/ RemoteRenameProject
  \/ RemoteEditTask
  \/ UserEdit
  \/ UserDelete
  \/ TimePasses
  \/ updateSettings

Spec == Init /\ [][Next]_vars

\* ------------------------------------------------------------------------
\* Properties
\* ------------------------------------------------------------------------
InFlight == {op \in Ops : pc[op] # "idle"}

\* a step in which a call to an entry point found the engine running
RejectedCall == isRunning /\ budget'.calls = budget.calls - 1

\* a step taken by the engine, not by the environment
EngineStep == budget'.env = budget.env

\* the remote mutations a step issues
NewCalls == IF Len(calls') > Len(calls) THEN SubSeq(calls', Len(calls) + 1, Len(calls')) ELSE << >>

\* C1: at most one of performSync, fetchFromTodoist, scan and pull is in
\* flight at any time; a call made while one is in flight returns 'Sync
\* already in progress' at once, starts nothing then or later (it is not
\* queued: a run starts only in the step of its own accepted call), and leaves
\* Remote State, Local State, the watermark and the documents unchanged.
C1_SingleFlight ==
  /\ [](Cardinality(InFlight) <= 1 /\ (isRunning <=> InFlight # {}))
  /\ [][RejectedCall =>
          /\ lastResult' = Rejected
          /\ UNCHANGED <<ts, os, lastSyncTime, files, folders, pc, isRunning,
                         pendingChanges, server, calls>>]_vars
  /\ [][\A op \in Ops :
          (pc[op] = "idle" /\ pc'[op] # "idle") =>
             (~isRunning /\ budget'.calls = budget.calls - 1)]_vars

C1_Witness ==
  /\ lastResult = Rejected
  /\ pc["performSync"] = "recT"
  /\ budget.calls = 0

\* C2: when Local State holds a document path for entity E (task, project
\* or section), reconciling E writes to that path only: no file is created
\* or changed at any other path.
C2_AntiDuplication ==
  [][Len(log') = Len(log) + 1 =>
       LET e == log'[Len(log')]
           notes == os[NotesField(e.kind)]
       IN e.id \in DOMAIN notes =>
            \A p \in DOMAIN files' :
              p # notes[e.id].filePath => (p \in DOMAIN files /\ files'[p] = files[p])]_vars

\* C3: a reconcile pass that follows a completed pass, with no remote or
\* local change in between, creates and updates nothing: every entity is
\* skipped.
C3_Idempotent ==
  \A op \in Ops :
    (IsReconcileOp(op) /\ pc[op] = "finish" /\ ~hist.tainted /\ hist.prevKind = "real")
      => \A i \in 1..Len(log) : log[i].result = "skipped"

\* the entities Local State holds, as <<kind, id>>
LocalEntities ==
  {<<"task", id>> : id \in DOMAIN os.taskNotes}
  \cup {<<"project", id>> : id \in DOMAIN os.projectNotes}
  \cup {<<"section", id>> : id \in DOMAIN os.sectionNotes}

PathOf(e) == os[NotesField(e[1])][e[2]].filePath

\* C4: after a successful reconcile no two distinct entities share one
\* document path.
C4_OneNotePerEntity ==
  \A op \in Ops :
    (IsReconcileOp(op) /\ pc[op] = "finish")
      => \A e1, e2 \in LocalEntities : e1 # e2 => PathOf(e1) # PathOf(e2)

\* a call of the given kind for task id, among the calls cs
HasCall(cs, api, id) == \E i \in 1..Len(cs) : cs[i].api = api /\ cs[i].id = id

\* the task documents the safety net has to pick up: modified after the
\* watermark, known to Local State at their path, not in the pending queue
MissedEdits ==
  {p \in DOMAIN files :
     /\ KindOf(files[p]) = "task"
     /\ files[p].mtime > lastSyncTime
     /\ ~InQueue(pendingChanges, p)
     /\ files[p].fm.todoist_id \in DOMAIN os.taskNotes
     /\ os.taskNotes[files[p].fm.todoist_id] = ScannedNote(p, files[p])}

\* C5: in a performSync, every task document modified after the watermark
\* and absent from the pending queue enters the safety net when the queue has
\* been drained; with dry-run off and the task known to Remote State, its
\* turn in the safety net issues closeTask / reopenTask when its completion
\* differs and updateTask carrying the title and the priority that differ;
\* the run does not go on to reconcile before every such note had its turn.
C5_MissedEditPushed ==
  /\ [][(pc["performSync"] = "drain" /\ pc'["performSync"] \in {"net", "recon"}) =>
          \A p \in MissedEdits : os.taskNotes[files[p].fm.todoist_id] \in work'.modT]_vars
  /\ [][pc["performSync"] = "net" =>
          \A n \in work.modT \ work'.modT :
            (~settings.dryRunMode /\ n.todoistId \in DOMAIN ts.tasks) =>
              LET e == ts.tasks[n.todoistId]
                  fm == n.frontmatter
              IN /\ fm.completed # e.checked =>
                      HasCall(NewCalls, IF fm.completed THEN "closeTask" ELSE "reopenTask",
                              n.todoistId)
                 /\ fm.title # e.content =>
                      \E i \in 1..Len(NewCalls) :
                        /\ NewCalls[i].api = "updateTask" /\ NewCalls[i].id = n.todoistId
                        /\ NewCalls[i].content = fm.title
                 /\ (fm.priority # NoPriority /\ fm.priority # e.priority) =>
                      \E i \in 1..Len(NewCalls) :
                        /\ NewCalls[i].api = "updateTask" /\ NewCalls[i].id = n.todoistId
                        /\ NewCalls[i].priority = fm.priority]_vars
  /\ [](pc["performSync"] \in {"recon", "recP", "recS", "recT", "finish"} => work.modT = {})

C5_Witness ==
  /\ ~isWatchingFiles
  /\ pc["performSync"] = "recon"
  /\ HasCall(calls, "closeTask", "T1")
  /\ \E i \in 1..Len(calls) :
       calls[i].api = "updateTask" /\ calls[i].id = "T1" /\ calls[i].content = TitleB

\* C6: under dry-run no step of the engine writes to storage: the documents
\* and the folders stay as they are.
C6_DryRunNoStorageWrites ==
  [][(settings.dryRunMode /\ fgDryRun /\ EngineStep) =>
       (files' = files /\ folders' = folders)]_vars

\* C7: under dry-run no step of the engine issues a remote mutation, from
\* the pending queue or from the safety net, and the remote service is left
\* as it is.
C7_DryRunNoRemoteMutation ==
  [][(settings.dryRunMode /\ EngineStep) =>
       (NewCalls = << >> /\ server' = server)]_vars

\* a dry run past both the queue and the safety net, where a queued document
\* differs from Remote State
C7_Witness ==
  /\ settings.dryRunMode
  /\ isWatchingFiles
  /\ pc["performSync"] = "recon"
  /\ calls = << >>
  /\ \E id \in DOMAIN os.taskNotes \cap DOMAIN ts.tasks :
       /\ os.taskNotes[id].lastModified > lastSyncTime
       /\ os.taskNotes[id].frontmatter.title # ts.tasks[id].content

Rank(kind) == CASE kind = "project" -> 1 [] kind = "section" -> 2 [] OTHER -> 3

DocsOf(id, type) ==
  {p \in DOMAIN files : files[p].fm.todoist_id = id /\ files[p].fm.todoist_type = type}

\* the sections a pass reconciles: those whose project it has reconciled
ReconciledSections ==
  {id \in getAllSections(ts) : ts.sections[id].project_id \in getAllProjects(ts)}

\* C9: the decisions of a pass come in the order projects, sections, tasks:
\* when a section or task is decided every project of Remote State has been,
\* when a task is decided every section of those projects has been (a section
\* of an unknown project is not reconciled at all), and no entity is decided
\* twice; an entity without a note in Local State is created; and a pass over
\* one project P1 and one task T1 with no notes ends with exactly one project
\* document and exactly one task document, the project decided first.
C9_LevelOrder ==
  /\ [](\A i, j \in 1..Len(log) :
          i < j => (Rank(log[i].kind) <= Rank(log[j].kind) /\ log[i] # log[j]))
  /\ [](\A j \in 1..Len(log) :
          /\ Rank(log[j].kind) > 1 =>
               \A id \in getAllProjects(ts) :
                 \E i \in 1..(j - 1) : log[i].kind = "project" /\ log[i].id = id
          /\ Rank(log[j].kind) > 2 =>
               \A id \in ReconciledSections :
                 \E i \in 1..(j - 1) : log[i].kind = "section" /\ log[i].id = id)
  /\ [][Len(log') = Len(log) + 1 =>
          LET e == log'[Len(log')]
          IN e.id \notin DOMAIN os[NotesField(e.kind)] => e.result = "created"]_vars
  /\ [](\A op \in Ops :
          (/\ IsReconcileOp(op) /\ pc[op] = "finish" /\ ~fgDryRun
           /\ getAllProjects(ts) = {"P1"} /\ getAllSections(ts) = {}
           /\ getAllTasks(ts) = {"T1"}
           /\ \A i \in 1..Len(log) : log[i].result = "created")
            => /\ log[1].kind = "project" /\ log[2].kind = "task" /\ Len(log) = 2
               /\ Cardinality(DocsOf("P1", "project")) = 1
               /\ Cardinality(DocsOf("T1", "task")) = 1)

C9_Witness ==
  /\ pc["performSync"] = "finish"
  /\ ~fgDryRun
  /\ log = <<Entry("project", "P1", "created"), Entry("task", "T1", "created")>>
  /\ Cardinality(DOMAIN files) = 2

\* C10: when the reachability check of performSync fails the run ends with
\* a failure outcome and has changed nothing: Remote State, Local State, the
\* pending queue, the watermark, the documents and folders are as before the
\* call and no remote mutation was issued.
C10_ConnectionFailure ==
  /\ [][(pc["performSync"] = "test" /\ budget'.fail < budget.fail) =>
          /\ pc'["performSync"] = "idle" /\ ~isRunning'
          /\ lastResult' = Failure("performSync", "Failed to connect to Todoist API")
          /\ UNCHANGED <<ts, os, pendingChanges, lastSyncTime, files, folders, server, calls>>]_vars
  /\ [][(pc["performSync"] = "idle" /\ pc'["performSync"] = "test") =>
          /\ UNCHANGED <<ts, os, pendingChanges, lastSyncTime, files, folders, server>>
          /\ calls' = << >>]_vars
  /\ [](pc["performSync"] = "test" => calls = << >>)

C10_Witness ==
  /\ lastResult = Failure("performSync", "Failed to connect to Todoist API")
  /\ DOMAIN files # {}
  /\ ~isRunning

\* the last request of syncFromTodoist in a state
LastFetch(w) == w.fetches[Len(w.fetches)]

\* C11: the first request of the fetch step is incremental exactly when
\* Remote State does not need a full sync and its token is not the initial
\* sentinel; a failed incremental fetch is followed, in the same run, by one
\* full fetch whose answer is replayed as a full payload (or whose failure
\* ends the run); a run makes at most one incremental and one full fetch.
C11_FetchFallback ==
  /\ [][\A op \in Ops :
          (pc[op] = "fetch" /\ pc'[op] # "fetch") =>
             /\ Len(work'.fetches) = 1
             /\ work'.fetches[1].kind = "incremental"
                  <=> (~needsFullSync(ts, now) /\ ts.syncToken # InitialToken)
             /\ (work'.fetches[1].kind = "incremental" /\ work'.fetches[1].failed # "none")
                  => pc'[op] = "full"]_vars
  /\ [][\A op \in Ops :
          (pc[op] = "full" /\ pc'[op] # "full") =>
             /\ Len(work'.fetches) = 2 /\ LastFetch(work').kind = "full"
             /\ pc'[op] \in {"idle", AfterFetch(op)}
             /\ pc'[op] # "idle" =>
                  (ts'.syncToken = "rest" /\ ts'.lastFullSync = now
                     /\ DOMAIN ts'.tasks \subseteq DOMAIN server.tasks
                     /\ DOMAIN ts'.projects \subseteq DOMAIN server.projects
                     /\ DOMAIN ts'.sections \subseteq DOMAIN server.sections)]_vars
  /\ [](/\ Len(work.fetches) <= 2
        /\ Len(work.fetches) = 2 =>
             /\ work.fetches[1] = [kind |-> "incremental", failed |-> "sync"]
             /\ work.fetches[2].kind = "full"
        /\ \A op \in Ops : pc[op] = "full" =>
             work.fetches = <<[kind |-> "incremental", failed |-> "sync"]>>)

C11_Witness ==
  /\ work.fetches = <<[kind |-> "incremental", failed |-> "sync"],
                      [kind |-> "full", failed |-> "none"]>>
  /\ pc["performSync"] = "scan"
  /\ ts.syncToken = "rest" /\ ts.lastFullSync = now

\* C12: a request that fails during the full fetch ends the run with a
\* failure outcome and leaves Remote State as it was before the fetch; a
\* fetch step that lets the run go on has replayed what the service holds.
C12_FullFetchFailureAborts ==
  [][\A op \in Ops :
       (pc[op] \in {"fetch", "full"} /\ work'.fetches # work.fetches
          /\ LastFetch(work').kind = "full" /\ LastFetch(work').failed # "none")
         => (/\ pc'[op] = "idle" /\ ~isRunning'
             /\ lastResult'.success = FALSE
             /\ ts' = ts)]_vars

\* ------------------------------------------------------------------------
\* Replaying payloads into Remote State, on its own: TodoistState starts
\* from one of a set of earlier states and replays one payload
\* ------------------------------------------------------------------------
LabelIds == {"L1"}
LabelRec(name) == [name |-> name, is_deleted |-> FALSE]

Deleted(rec) == [rec EXCEPT !.is_deleted = TRUE]

\* the arrays a payload may carry for one kind: each id at most once, live
\* or marked deleted, in any order
RECURSIVE ArraysOver(_, _)
ArraysOver(ids, variants) ==
  {<< >>} \cup
  UNION {{<<<<id, v>>>> \o rest : v \in variants[id], rest \in ArraysOver(ids \ {id}, variants)}
         : id \in ids}

TaskVariants ==
  [id \in TaskIds |->
     LET rec == TaskRec(IF id = "T1" THEN TitleDot ELSE TitleB, 1, FALSE, "P1", NoId, 1)
     IN {rec, Deleted(rec)}]

ProjectVariants ==
  [id \in ProjectIds |->
     {ProjectRec(NameQ), Deleted(ProjectRec(NameQ)),
      [ProjectRec(NameQ) EXCEPT !.is_archived = TRUE]}]

SectionVariants ==
  [id \in SectionIds |-> {SectionRec(<<"s">>, "P1"), Deleted(SectionRec(<<"s">>, "P1"))}]

LabelVariants == [id \in LabelIds |-> {LabelRec("l"), Deleted(LabelRec("l"))}]

ReplayPayloads ==
  [sync_token : {"sync"}, full_sync : BOOLEAN,
   items : ArraysOver(TaskIds, TaskVariants),
   projects : ArraysOver(ProjectIds, ProjectVariants),
   sections : ArraysOver(SectionIds, SectionVariants),
   labels : ArraysOver(LabelIds, LabelVariants)]

\* Remote State as earlier replays may have left it
PriorStates ==
  {[tasks |-> [id \in t |-> TaskRec(TitleQ, 2, FALSE, "P1", NoId, 1)],
    projects |-> [id \in p |-> ProjectRec(NameP)],
    sections |-> [id \in x \cap SectionIds |-> SectionRec(<<"s">>, "P1")],
    labels |-> [id \in x \cap LabelIds |-> LabelRec("k")],
    syncToken |-> "rest", lastFullSync |-> 1, lastIncrementalSync |-> 1] :
     t \in SUBSET TaskIds, p \in SUBSET ProjectIds, x \in SUBSET (SectionIds \cup LabelIds)}

NoPayload ==
  [sync_token |-> "none", full_sync |-> FALSE, items |-> << >>, projects |-> << >>,
   sections |-> << >>, labels |-> << >>]

InitReplay ==
  /\ server = [projects |-> EmptyMap, sections |-> EmptyMap, tasks |-> EmptyMap]
  /\ serverDirty = {}
  /\ ts \in PriorStates
  /\ os = EmptyObsidianState
  /\ files = EmptyMap
  /\ folders = {}
  /\ isRunning = FALSE
  /\ lastSyncTime = 0
  /\ pendingChanges = << >>
  /\ isWatchingFiles = FALSE
  /\ settings = [tokenSet |-> TRUE, dryRunMode |-> FALSE]
  /\ fgDryRun = FALSE
  /\ pc = [op \in Ops |-> "idle"]
  /\ work = [payload |-> NoPayload, before |-> ts]
  /\ log = << >>
  /\ calls = << >>
  /\ lastResult = NoResult
  /\ now = 2
  /\ hist = [tainted |-> FALSE, prevKind |-> "none", prevLog |-> << >>]
  /\ budget = [env |-> 0, calls |-> 0, fail |-> 0]

\* this.todoistState.updateFromSync(syncResponse)
Replay ==
  /\ work.payload = NoPayload
  /\ \E payload \in ReplayPayloads :
       /\ ts' = updateFromSync(ts, payload, now)
       /\ work' = [payload |-> payload, before |-> ts]
  /\ UNCHANGED <<server, serverDirty, os, files, folders, isRunning, lastSyncTime,
                 pendingChanges, isWatchingFiles, settings, fgDryRun, pc, log,
                 calls, lastResult, now, hist, budget>>

NextReplay == Replay

SpecReplay == InitReplay /\ [][NextReplay]_vars

\* the entities of an array that are not marked deleted / that are
Live(entries) == {entries[i] : i \in {j \in 1..Len(entries) : ~entries[j][2].is_deleted}}
Dead(entries) == {entries[i] : i \in {j \in 1..Len(entries) : entries[j][2].is_deleted}}

Replayed == work.payload # NoPayload

\* C13 (as stated): after the replay of a full snapshot every task, project,
\* section and label the snapshot carries with deleted=false is returned by
\* the getAll accessor of its kind, as the snapshot carries it.
C13_FullReplayComplete ==
  (Replayed /\ work.payload.full_sync) =>
     /\ \A e \in Live(work.payload.items) :
          e[1] \in getAllTasks(ts) /\ ts.tasks[e[1]] = e[2]
     /\ \A e \in Live(work.payload.projects) :
          e[1] \in getAllProjects(ts) /\ ts.projects[e[1]] = e[2]
     /\ \A e \in Live(work.payload.sections) :
          e[1] \in getAllSections(ts) /\ ts.sections[e[1]] = e[2]
     /\ \A e \in Live(work.payload.labels) :
          e[1] \in getAllLabels(ts) /\ ts.labels[e[1]] = e[2]

\* C13 (amended): the same for every task, section and label, and for every
\* project that is neither deleted nor archived: getAllProjects leaves
\* archived projects out.
C13_FullReplayCompleteUnarchived ==
  (Replayed /\ work.payload.full_sync) =>
     /\ \A e \in Live(work.payload.items) :
          e[1] \in getAllTasks(ts) /\ ts.tasks[e[1]] = e[2]
     /\ \A e \in Live(work.payload.projects) :
          /\ ts.projects[e[1]] = e[2]
          /\ ~e[2].is_archived => e[1] \in getAllProjects(ts)
     /\ \A e \in Live(work.payload.sections) :
          e[1] \in getAllSections(ts) /\ ts.sections[e[1]] = e[2]
     /\ \A e \in Live(work.payload.labels) :
          e[1] \in getAllLabels(ts) /\ ts.labels[e[1]] = e[2]

C13_Witness ==
  /\ Replayed /\ work.payload.full_sync
  /\ Len(work.payload.items) = 2 /\ Live(work.payload.items) # {}
  /\ \E e \in Live(work.payload.projects) : ~e[2].is_archived
  /\ getAllTasks(ts) # {} /\ getAllProjects(ts) # {}

\* C14: after the replay of any payload, full or incremental, no entity the
\* payload carries with deleted=true is returned by the getAll accessor of
\* its kind.
C14_DeletedAbsent ==
  Replayed =>
     /\ \A e \in Dead(work.payload.items) : e[1] \notin getAllTasks(ts)
     /\ \A e \in Dead(work.payload.projects) : e[1] \notin getAllProjects(ts)
     /\ \A e \in Dead(work.payload.sections) : e[1] \notin getAllSections(ts)
     /\ \A e \in Dead(work.payload.labels) : e[1] \notin getAllLabels(ts)

C14_Witness ==
  /\ Replayed /\ ~work.payload.full_sync
  /\ \E e \in Dead(work.payload.items) :
       e[1] \in getAllTasks(work.before) /\ e[1] \notin getAllTasks(ts)
  /\ \E e \in Dead(work.payload.labels) : e[1] \in getAllLabels(work.before)

\* ------------------------------------------------------------------------
\* Reconciliation of single tasks
\* ------------------------------------------------------------------------
\* the decision a reconcile step has just logged
Logged == log'[Len(log')]

\* a step of the task loop that reconciled one task
TaskStep(op) == pc[op] = "recT" /\ Len(log') = Len(log) + 1

\* C15: a task whose project the pass has not resolved is skipped: the step
\* of the task loop that handles it writes no document and leaves Local
\* State as it was.
C15_UnresolvedProjectSkipped ==
  [][\A op \in Ops :
       (TaskStep(op) /\ ts.tasks[Logged.id].project_id \notin DOMAIN work.projectMap)
          => (Logged.result = "skipped" /\ files' = files /\ os' = os)]_vars

\* the decisions of the log about tasks
TaskResults == {log[i].result : i \in {j \in 1..Len(log) : log[j].kind = "task"}}

C17_RemoteChangeReflected ==
  (pc["performSync"] = "finish" /\ ~fgDryRun) =>
     \A id \in getAllTasks(ts) \cap DOMAIN os.taskNotes :
        LET path == os.taskNotes[id].filePath
            task == ts.tasks[id]
        IN (/\ path \in DOMAIN files
            /\ files[path].fm.todoist_id = id
            /\ files[path].mtime <= lastSyncTime)
           => /\ files[path].fm.title = task.content
              /\ files[path].fm.priority = task.priority
              /\ files[path].fm.completed = task.checked

\* ------------------------------------------------------------------------
\* The push step and the stamp
\* ------------------------------------------------------------------------
\* the document the push step is handling in this step: the queue entry of
\* the drain, or the file of the modified note of the safety net
PushedPath ==
  IF pc["performSync"] = "drain" THEN pendingChanges[work.drainIdx]
  ELSE (CHOOSE n \in work.modT \ work'.modT : TRUE).filePath

\* C18: outside dry-run, a step of the push (queue drain or modified-since
\* safety net) that issues remote mutations for a task document, none of
\* them failing, leaves that document with last_sync = now and
\* sync_status = synced.
C18_PushStamps ==
  [][(/\ pc["performSync"] \in {"drain", "net"}
      /\ ~settings.dryRunMode
      /\ NewCalls # << >>
      /\ NewCalls[1].id \in TaskIds
      /\ budget'.fail = budget.fail)
     => (/\ PushedPath \in DOMAIN files'
         /\ files'[PushedPath].fm.last_sync = now
         /\ files'[PushedPath].fm.sync_status = "synced")]_vars

\* ------------------------------------------------------------------------
\* Failures inside a run
\* ------------------------------------------------------------------------
\* a step in which a request or a write failed
FailingStep == budget'.fail < budget.fail

ReconcileLevels == {Levels[n] : n \in 1..Len(Levels)}

\* C19: a failed document write in a reconcile loop abandons that entity
\* only: the run stays in flight and goes on with the entities the pass has
\* left (or, with none left, to its end).
C19_WriteFailureIsLocal ==
  [][\A op \in Ops :
       (pc[op] \in ReconcileLevels /\ FailingStep)
          => /\ isRunning'
             /\ \E id \in work.todo :
                  pc'[op] = After(pc[op], work.todo \ {id}, work'.projectMap).pc]_vars

\* C20: a run that was accepted ends in Idle whatever fails: a step past the
\* fetch in which a request or a write fails ends the run at once with
\* success = false; a run ends with the single-flight flag cleared and an
\* outcome for its entry point whose success is false exactly when its last
\* step failed; the flag is set exactly while a run is in flight.
C20_RunOutcome ==
  [][/\ \A op \in Ops :
          (pc[op] \notin {"idle", "fetch", "full"} /\ FailingStep)
             => (pc'[op] = "idle" /\ lastResult' = Failure(op, lastResult'.message))
     /\ \A op \in Ops :
          (pc[op] # "idle" /\ pc'[op] = "idle")
             => /\ lastResult'.op = op
                /\ lastResult'.success <=> ~FailingStep
     /\ isRunning' <=> (\E op \in Ops : pc'[op] # "idle")]_vars

\* ------------------------------------------------------------------------
\* The pending-change queue on its own: processPendingChanges is called by
\* the push step of a run and by the 2-second timer of startFileWatching,
\* which does not look at the single-flight flag; every await of a drain
\* lets the other drain and the vault's modify events in
\* ------------------------------------------------------------------------
Drains == {"run", "timer"}

QueueTasks ==
  [t \in TaskIds |-> TaskRec(IF t = "T1" THEN TitleDot ELSE TitleB, 1, FALSE, "P1", NoId, 1)]

\* an engine whose last run has mirrored two tasks, file watching on
InitQueue ==
  /\ server = [projects |-> [p \in ProjectIds |-> ProjectRec(NameP)],
               sections |-> EmptyMap, tasks |-> QueueTasks]
  /\ serverDirty = {}
  /\ ts = [tasks |-> QueueTasks, projects |-> server.projects, sections |-> EmptyMap,
           labels |-> EmptyMap, syncToken |-> "rest", lastFullSync |-> 1,
           lastIncrementalSync |-> 1]
  /\ files = [path \in {TaskNotePath(QueueTasks[t], NameP, NoTitle, NoPath) : t \in TaskIds} |->
                LET t == CHOOSE t \in TaskIds :
                           TaskNotePath(QueueTasks[t], NameP, NoTitle, NoPath) = path
                IN Doc(buildTaskFrontmatter(t, QueueTasks[t], NameP, 1), FALSE, 1)]
  /\ folders = WithAncestors(<<sanitizeFileName(NameP)>>)
  /\ os \in ScanResults(files, folders)
  /\ isRunning = FALSE
  /\ lastSyncTime = 1
  /\ pendingChanges = << >>
  /\ isWatchingFiles = TRUE
  /\ settings = [tokenSet |-> TRUE, dryRunMode |-> FALSE]
  /\ fgDryRun = FALSE
  /\ pc = [op \in Ops |-> "idle"]
  /\ work = [idx |-> [d \in Drains |-> 0], fresh |-> {},
             attempts |-> [path \in DOMAIN files |-> 0]]
  /\ log = << >>
  /\ calls = << >>
  /\ lastResult = NoResult
  /\ now = 1
  /\ hist = [tainted |-> FALSE, prevKind |-> "none", prevLog |-> << >>]
  /\ budget = [env |-> MaxEnv, calls |-> 0, fail |-> MaxFail]

\* the user saves a document at any moment: vault 'modify' event ->
\* onFileModified. work.fresh (ghost): the paths notified since their last
\* processing attempt started
FileModified ==
  /\ budget.env > 0
  /\ budget' = [budget EXCEPT !.env = @ - 1]
  /\ now' = now + 1
  /\ \E path \in DOMAIN files :
       \E edited \in UserEdits(files[path]) :
         /\ files' = [files EXCEPT ![path] = [edited EXCEPT !.mtime = now + 1]]
         /\ pendingChanges' = onFileModified(pendingChanges, isWatchingFiles, path)
         /\ work' = [work EXCEPT !.fresh = @ \cup {path}]
  /\ UNCHANGED <<server, serverDirty, ts, os, folders, isRunning, lastSyncTime,
                 isWatchingFiles, settings, fgDryRun, pc, log, calls, lastResult, hist>>

\* processPendingChanges is entered: size > 0, the iterator of
\* pendingChanges.entries() is created
PendingBegin(d) ==
  /\ work.idx[d] = 0
  /\ pendingChanges # << >>
  /\ work' = [work EXCEPT !.idx[d] = 1]
  /\ UNCHANGED <<server, serverDirty, ts, os, files, folders, isRunning, lastSyncTime,
                 pendingChanges, isWatchingFiles, settings, fgDryRun, pc, log, calls,
                 lastResult, now, hist, budget>>

\* one iteration of the loop: await processFileChange(filePath).
\* work.attempts (ghost): the attempts made on each entry of the queue
PendingStep(d) ==
  /\ work.idx[d] > 0
  /\ work.idx[d] <= Len(pendingChanges)
  /\ LET path == pendingChanges[work.idx[d]]
     IN /\ \E out \in processFileChange(ts, files, settings.dryRunMode, path) :
             ApplyPush(out, path)
        /\ work' = [work EXCEPT !.idx[d] = @ + 1, !.fresh = @ \ {path},
                                !.attempts[path] = @ + 1]
  /\ UNCHANGED <<ts, os, folders, isRunning, lastSyncTime, isWatchingFiles,
                 settings, fgDryRun, pc, log, lastResult, now, hist>>

\* the iterator is exhausted: pendingChanges.clear(). The iterator of the
\* other drain goes on behind the cleared entries: it sees what is set later
PendingClear(d) ==
  /\ work.idx[d] > Len(pendingChanges)
  /\ pendingChanges' = << >>
  /\ work' = [work EXCEPT !.idx = [e \in Drains |->
                                     IF e # d /\ work.idx[e] > 0 THEN 1 ELSE 0],
                          !.attempts = [path \in DOMAIN files |-> 0]]
  /\ UNCHANGED <<server, serverDirty, ts, os, files, folders, isRunning, lastSyncTime,
                 isWatchingFiles, settings, fgDryRun, pc, log, calls, lastResult,
                 now, hist, budget>>

NextQueue ==
  \/ FileModified
  \/ \E d \in Drains : PendingBegin(d)
  \/ \E d \in Drains : PendingStep(d)
  \/ \E d \in Drains : PendingClear(d)

SpecQueue == InitQueue /\ [][NextQueue]_vars

\* C21: a change notified by onFileModified stays in the queue until a
\* processing attempt of its path has started after the notification.
C21_NoChangeDropped ==
  \A path \in work.fresh : InQueue(pendingChanges, path)

\* C22: each entry of the queue gets at most one processing attempt, and no
\* remote mutation is issued twice, however the two drains interleave.
C22_AtMostOneAttempt ==
  /\ \A path \in DOMAIN work.attempts : work.attempts[path] <= 1
  /\ \A i, j \in 1..Len(calls) : calls[i] = calls[j] => i = j

\* ------------------------------------------------------------------------
\* Remote State is written by the fetch only
\* ------------------------------------------------------------------------
\* C23: Remote State (its four maps and its sync bookkeeping) changes only
\* in a step of the fetch that replays a payload; the push step, the drain
\* of the queue, the vault events and reconcile leave it as it is.
C23_RemoteStateFrame ==
  [][ts' # ts =>
       \E op \in Ops : /\ pc[op] \in {"fetch", "full"}
                       /\ Len(work'.fetches) = Len(work.fetches) + 1
                       /\ LastFetch(work').failed \notin {"sync", "sections", "labels"}]_vars

\* a pushed edit has reached the service and Remote State still holds the
\* task as the last fetch left it
C23_Witness ==
  /\ pc["performSync"] = "finish"
  /\ calls # << >>
  /\ \E id \in DOMAIN ts.tasks \cap DOMAIN server.tasks :
       /\ HasCall(calls, "updateTask", id)
       /\ server.tasks[id].content # ts.tasks[id].content
       /\ \E path \in DOMAIN files : /\ files[path].fm.todoist_id = id
                                    /\ files[path].fm.title = server.tasks[id].content

\* ------------------------------------------------------------------------
\* Frontmatter text: FileGenerator.serializeFrontmatter and
\* FrontmatterParser.parseFrontmatter. A text is the sequence of its lines, a
\* property value is a record [t, v] with t one of "str", "num", "bool", "arr"
\* ------------------------------------------------------------------------
Delimiter == <<"-", "-", "-">>
DigitChars == <<"0", "1", "2", "3", "4", "5", "6", "7", "8", "9">>
TrueText == <<"t", "r", "u", "e">>
FalseText == <<"f", "a", "l", "s", "e">>

\* `${value}` of a number
RECURSIVE NumberText(_)
NumberText(n) ==
  IF n < 10 THEN <<DigitChars[n + 1]>>
  ELSE NumberText(n \div 10) \o <<DigitChars[(n % 10) + 1]>>

\* FileGenerator.serializeFrontmatter: the lines of the frontmatter block
serializeFrontmatter(frontmatter) ==
  LET RECURSIVE escape(_)
      escape(str) ==
        IF str = << >> THEN << >>
        ELSE (IF Head(str) = "\"" THEN <<"\\", "\"">> ELSE <<Head(str)>>) \o escape(Tail(str))
      entry(key, value) ==
        CASE value.t = "arr" ->
               <<key \o <<":">>>> \o
               [i \in 1..Len(value.v) |-> <<" ", " ", "-", " ">> \o value.v[i]]
          [] value.t = "str" ->
               IF value.v = TrueText THEN <<key \o <<":", " ">> \o TrueText>>
               ELSE IF value.v = FalseText THEN <<key \o <<":", " ">> \o FalseText>>
               ELSE <<key \o <<":", " ", "\"">> \o escape(value.v) \o <<"\"">>>>
          [] value.t = "num" -> <<key \o <<":", " ">> \o NumberText(value.v)>>
          [] value.t = "bool" ->
               <<key \o <<":", " ">> \o (IF value.v THEN TrueText ELSE FalseText)>>
      RECURSIVE entries(_)
      entries(keys) ==
        IF keys = {} THEN << >>
        ELSE LET key == CHOOSE k \in keys : TRUE
             IN entry(key, frontmatter[key]) \o entries(keys \ {key})
  IN <<Delimiter>> \o entries(DOMAIN frontmatter) \o <<Delimiter>>

\* FrontmatterParser.parseYaml: one property per line holding a colon
parseYaml(lines) ==
  LET isDigit(c) == \E i \in 1..10 : DigitChars[i] = c
      digit(c) == (CHOOSE i \in 1..10 : DigitChars[i] = c) - 1
      \* !isNaN(Number(value)) && value !== '' (Number trims; blank text is 0)
      isNumber(str) == str # << >> /\ \A i \in 1..Len(Trim(str)) : isDigit(Trim(str)[i])
      RECURSIVE number(_)
      number(str) ==
        IF str = << >> THEN 0 ELSE 10 * number(SubSeq(str, 1, Len(str) - 1)) + digit(str[Len(str)])
      quoted(str, q) == str # << >> /\ Head(str) = q /\ str[Len(str)] = q
      unquote(str) ==
        IF quoted(str, "\"") \/ quoted(str, "'") THEN SubSeq(str, 2, Len(str) - 1) ELSE str
      strip(str) == SelectSeq(str, LAMBDA c : c \notin {"'", "\""})
      RECURSIVE split(_)
      split(str) ==
        LET comma == IndexFrom(str, ",", 1)
        IN IF comma = 0 THEN <<str>>
           ELSE <<SubSeq(str, 1, comma - 1)>> \o split(SubSeq(str, comma + 1, Len(str)))
      items(str) == [i \in 1..Len(split(str)) |-> strip(Trim(split(str)[i]))]
      typed(value) ==
        IF Len(value) >= 2 /\ Head(value) = "[" /\ value[Len(value)] = "]"
        THEN LET arrayContent == Trim(SubSeq(value, 2, Len(value) - 1))
             IN [t |-> "arr", v |-> IF arrayContent # << >> THEN items(arrayContent) ELSE << >>]
        ELSE IF value = TrueText \/ value = FalseText
        THEN [t |-> "bool", v |-> value = TrueText]
        ELSE IF isNumber(value) THEN [t |-> "num", v |-> number(Trim(value))]
        ELSE [t |-> "str", v |-> value]
      RECURSIVE parse(_, _)
      parse(result, rest) ==
        IF rest = << >> THEN result
        ELSE LET trimmed == Trim(Head(rest))
                 colonIndex == IndexFrom(trimmed, ":", 1)
             IN IF trimmed = << >> \/ Head(trimmed) = "#" \/ colonIndex = 0
                THEN parse(result, Tail(rest))
                ELSE parse(Put(result, Trim(SubSeq(trimmed, 1, colonIndex - 1)),
                               typed(unquote(Trim(SubSeq(trimmed, colonIndex + 1, Len(trimmed)))))),
                           Tail(rest))
  IN parse(EmptyMap, lines)

\* FrontmatterParser.parseFrontmatter: null unless the text opens with the
\* delimiter and holds a second one
parseFrontmatter(lines) ==
  LET ends == {i \in 2..Len(lines) : lines[i] = Delimiter}
  IN IF lines = << >> \/ Head(lines) # Delimiter \/ ends = {}
     THEN [ok |-> FALSE, frontmatter |-> EmptyMap]
     ELSE LET frontmatterEnd == CHOOSE i \in ends : \A j \in ends : i <= j
          IN [ok |-> TRUE, frontmatter |-> parseYaml(SubSeq(lines, 2, frontmatterEnd - 1))]

\* the texts and numbers the property bags of the round trip are drawn from
MaxTextLen == 2
MaxNumber == 12
TextChars == {"a", "1", " ", "\"", "[", "]", ":", ","}
Texts == UNION {[1..n -> TextChars] : n \in 0..MaxTextLen} \cup {TrueText}
ArrayItems == {<<"a">>, <<"1">>, <<"a", ":">>}
PropertyKey == <<"k">>

InitRoundTrip ==
  /\ server = [projects |-> EmptyMap, sections |-> EmptyMap, tasks |-> EmptyMap]
  /\ serverDirty = {}
  /\ ts = [tasks |-> EmptyMap, projects |-> EmptyMap, sections |-> EmptyMap,
           labels |-> EmptyMap, syncToken |-> InitialToken, lastFullSync |-> 0,
           lastIncrementalSync |-> 0]
  /\ os = EmptyObsidianState
  /\ files = EmptyMap
  /\ folders = {}
  /\ isRunning = FALSE
  /\ lastSyncTime = 0
  /\ pendingChanges = << >>
  /\ isWatchingFiles = FALSE
  /\ settings = [tokenSet |-> TRUE, dryRunMode |-> FALSE]
  /\ fgDryRun = FALSE
  /\ pc = [op \in Ops |-> "idle"]
  /\ \E value \in [t : {"str"}, v : Texts] \cup [t : {"num"}, v : 0..MaxNumber]
                  \cup [t : {"bool"}, v : BOOLEAN]
                  \cup [t : {"arr"}, v : UNION {[1..n -> ArrayItems] : n \in 0..2}] :
       work = [stage |-> "bag", bag |-> [key \in {PropertyKey} |-> value],
               text |-> << >>, parsed |-> [ok |-> FALSE, frontmatter |-> EmptyMap]]
  /\ log = << >>
  /\ calls = << >>
  /\ lastResult = NoResult
  /\ now = 1
  /\ hist = [tainted |-> FALSE, prevKind |-> "none", prevLog |-> << >>]
  /\ budget = [env |-> 0, calls |-> 0, fail |-> 0]

\* the materializer writes the frontmatter of a document
SerializeBag ==
  /\ work.stage = "bag"
  /\ work' = [work EXCEPT !.stage = "text", !.text = serializeFrontmatter(work.bag)]
  /\ UNCHANGED <<server, serverDirty, ts, os, files, folders, isRunning, lastSyncTime,
                 pendingChanges, isWatchingFiles, settings, fgDryRun, pc, log, calls,
                 lastResult, now, hist, budget>>

\* the parser reads it back
ParseText ==
  /\ work.stage = "text"
  /\ work' = [work EXCEPT !.stage = "parsed", !.parsed = parseFrontmatter(work.text)]
  /\ UNCHANGED <<server, serverDirty, ts, os, files, folders, isRunning, lastSyncTime,
                 pendingChanges, isWatchingFiles, settings, fgDryRun, pc, log, calls,
                 lastResult, now, hist, budget>>

NextRoundTrip == SerializeBag \/ ParseText

SpecRoundTrip == InitRoundTrip /\ [][NextRoundTrip]_vars

\* C24: parse(serialize(bag)) = bag: the parser accepts the text and yields
\* the same keys, each with a value of the same type and content.
C24_RoundTrip ==
  work.stage = "parsed" =>
     /\ work.parsed.ok
     /\ DOMAIN work.parsed.frontmatter = DOMAIN work.bag
     /\ \A key \in DOMAIN work.bag :
          /\ work.parsed.frontmatter[key].t = work.bag[key].t
          /\ work.parsed.frontmatter[key].v = work.bag[key].v

\* ------------------------------------------------------------------------
\* The vault scan on its own: ObsidianState.scanVault over a vault holding
\* documents with and without an id, of every type, and other files
\* ------------------------------------------------------------------------
\* child instanceof TFile && child.extension === 'md'
IsMarkdown(path) ==
  LET name == path[Len(path)]
  IN name # << >> /\ name[Len(name)] \in {".md", "_project.md", "_section.md"}

\* fault variant: a second file carrying an id already seen is passed over
processFileFirstWins(st, path, doc) ==
  IF doc.fm.todoist_id = NoId THEN st
  ELSE IF doc.fm.todoist_id \in DOMAIN st[NotesField(KindOf(doc))]
  THEN [st EXCEPT !.filePathToTodoistId = Put(@, path, doc.fm.todoist_id)]
  ELSE setNote(st, KindOf(doc), doc.fm.todoist_id, ScannedNote(path, doc))

\* ObsidianState.processFile
processFile(st, path, doc) ==
  IF doc.fm.todoist_id = NoId THEN st
  ELSE setNote(st, KindOf(doc), doc.fm.todoist_id, ScannedNote(path, doc))

\* ObsidianState.scanVault / scanFolderRecursively, the files below the sync
\* folder being visited in the given order
scanVault(fs, fds, order) ==
  LET RECURSIVE visit(_, _)
      visit(st, rest) ==
        IF rest = << >> THEN st
        ELSE visit(IF IsMarkdown(Head(rest)) THEN processFile(st, Head(rest), fs[Head(rest)])
                   ELSE st, Tail(rest))
  IN IF SyncFolder \notin fds THEN EmptyObsidianState
     ELSE visit(EmptyObsidianState, order)

ScanPaths ==
  {<< <<"x", ".md">> >>, << <<"p">>, <<"y", ".md">> >>, << <<"z", ".txt">> >>}

ScanDocs ==
  {Doc(Frontmatter(id, type, title, 1, FALSE, "", FALSE, NoTitle, 1), FALSE, 1) :
     id \in {"T1", NoId}, type \in {"task", "project", "section", "none"},
     title \in {TitleB, NoTitle}}

Orders(paths) ==
  {o \in [1..Cardinality(paths) -> paths] : \A i, j \in DOMAIN o : o[i] = o[j] => i = j}

InitScan ==
  /\ server = [projects |-> EmptyMap, sections |-> EmptyMap, tasks |-> EmptyMap]
  /\ serverDirty = {}
  /\ ts = [tasks |-> EmptyMap, projects |-> EmptyMap, sections |-> EmptyMap,
           labels |-> EmptyMap, syncToken |-> InitialToken, lastFullSync |-> 0,
           lastIncrementalSync |-> 0]
  /\ os = EmptyObsidianState
  /\ \E paths \in SUBSET ScanPaths : files \in [paths -> ScanDocs]
  /\ folders = IF files = EmptyMap THEN {} ELSE WithAncestors(<< <<"p">> >>)
  /\ isRunning = FALSE
  /\ lastSyncTime = 0
  /\ pendingChanges = << >>
  /\ isWatchingFiles = FALSE
  /\ settings = [tokenSet |-> TRUE, dryRunMode |-> FALSE]
  /\ fgDryRun = FALSE
  /\ pc = [op \in Ops |-> "idle"]
  /\ work = [scanned |-> FALSE, order |-> << >>]
  /\ log = << >>
  /\ calls = << >>
  /\ lastResult = NoResult
  /\ now = 1
  /\ hist = [tainted |-> FALSE, prevKind |-> "none", prevLog |-> << >>]
  /\ budget = [env |-> 0, calls |-> 0, fail |-> 0]

\* this.obsidianState.scanVault()
ScanOnce ==
  /\ ~work.scanned
  /\ \E order \in Orders(DOMAIN files) :
       /\ os' = scanVault(files, folders, order)
       /\ work' = [scanned |-> TRUE, order |-> order]
  /\ UNCHANGED <<server, serverDirty, ts, files, folders, isRunning, lastSyncTime,
                 pendingChanges, isWatchingFiles, settings, fgDryRun, pc, log, calls,
                 lastResult, now, hist, budget>>

NextScan == ScanOnce

SpecScan == InitScan /\ [][NextScan]_vars

\* the markdown documents carrying an entity id, and the map of each
InScope == {path \in DOMAIN files : IsMarkdown(path) /\ files[path].fm.todoist_id # NoId}

MapOf(path) ==
  LET type == files[path].fm.todoist_type
  IN IF type = "project" THEN "projectNotes"
     ELSE IF type = "section" THEN "sectionNotes" ELSE "taskNotes"

\* the position of a path in the order of the scan
ScannedAt(path) == CHOOSE i \in 1..Len(work.order) : work.order[i] = path

validateTask(task) ==
  /\ task[1] # NoId
  /\ task[2].content # NoTitle
  /\ task[2].priority = NoPriority \/ task[2].priority \in 1..4
  /\ task[2].labels_array

\* DataValidator.validateProject
validateProject(project) == project[1] # NoId /\ project[2].name # NoTitle

\* DataValidator.validateSection
validateSection(section) ==
  /\ section[1] # NoId
  /\ section[2].name # NoTitle
  /\ section[2].project_id # NoId

\* DataValidator.filterValidTasks
filterValidTasks(tasks) == SelectSeq(tasks, validateTask)

\* the answers the service may give: records well-formed and malformed
AnswerTask(content, priority, labels_array) ==
  TaskRec(content, priority, FALSE, "P1", NoId, 1) @@ [labels_array |-> labels_array]

Answers ==
  [items : ArraysOver({"T1", NoId},
             [id \in {"T1", NoId} |->
                IF id = NoId THEN {AnswerTask(TitleB, 1, TRUE)}
                ELSE {AnswerTask(TitleB, 1, TRUE), AnswerTask(NoTitle, 1, TRUE),
                      AnswerTask(TitleB, 5, TRUE), AnswerTask(TitleB, NoPriority, FALSE)}]),
   projects : ArraysOver({"P1"}, [id \in {"P1"} |-> {ProjectRec(NameP), ProjectRec(NoTitle)}]),
   sections : ArraysOver({"S1"},
                [id \in {"S1"} |-> {SectionRec(<<"s">>, "P1"), SectionRec(NoTitle, "P1"),
                                    SectionRec(<<"s">>, NoId)}])]

InitValidate ==
  /\ server = [projects |-> EmptyMap, sections |-> EmptyMap, tasks |-> EmptyMap]
  /\ serverDirty = {}
  /\ ts = [tasks |-> EmptyMap, projects |-> EmptyMap, sections |-> EmptyMap,
           labels |-> EmptyMap, syncToken |-> "sync", lastFullSync |-> 1,
           lastIncrementalSync |-> 1]
  /\ os = EmptyObsidianState
  /\ files = EmptyMap
  /\ folders = {}
  /\ isRunning = FALSE
  /\ lastSyncTime = 0
  /\ pendingChanges = << >>
  /\ isWatchingFiles = FALSE
  /\ settings = [tokenSet |-> TRUE, dryRunMode |-> FALSE]
  /\ fgDryRun = FALSE
  /\ pc = [op \in Ops |-> "idle"]
  /\ \E answer \in Answers : work = [answer |-> answer, fetched |-> "none"]
  /\ log = << >>
  /\ calls = << >>
  /\ lastResult = NoResult
  /\ now = 2
  /\ hist = [tainted |-> FALSE, prevKind |-> "none", prevLog |-> << >>]
  /\ budget = [env |-> 0, calls |-> 0, fail |-> 0]

\* syncFromTodoist, REST branch: getProjects, getTasks (the only getter that
\* filters), getSections, then updateFromSync(mockSyncResponse)
FetchFullAnswer ==
  /\ work.fetched = "none"
  /\ ts' = updateFromSync(ts, FullPayload(work.answer.projects,
                                         filterValidTasks(work.answer.items),
                                         work.answer.sections), now)
  /\ work' = [work EXCEPT !.fetched = "full"]
  /\ UNCHANGED <<server, serverDirty, os, files, folders, isRunning, lastSyncTime,
                 pendingChanges, isWatchingFiles, settings, fgDryRun, pc, log, calls,
                 lastResult, now, hist, budget>>

\* syncFromTodoist, sync branch: updateFromSync(await todoistAPI.sync(token))
FetchIncrementalAnswer ==
  /\ work.fetched = "none"
  /\ ts' = updateFromSync(ts, [sync_token |-> "sync", full_sync |-> FALSE,
                               items |-> work.answer.items,
                               projects |-> work.answer.projects,
                               sections |-> work.answer.sections,
                               labels |-> << >>], now)
  /\ work' = [work EXCEPT !.fetched = "incremental"]
  /\ UNCHANGED <<server, serverDirty, os, files, folders, isRunning, lastSyncTime,
                 pendingChanges, isWatchingFiles, settings, fgDryRun, pc, log, calls,
                 lastResult, now, hist, budget>>

NextValidate == FetchFullAnswer \/ FetchIncrementalAnswer

SpecValidate == InitValidate /\ [][NextValidate]_vars

\* C26: whichever way an answer was fetched, Remote State holds no
\* malformed record: no task without id or content, with a priority
\* outside 1..4 or with labels that are no array, no project without id or
\* name, no section without id, name or project id; the well-formed records
\* of the answer are all there.
C26_MalformedDropped ==
  work.fetched # "none" =>
    /\ \A id \in DOMAIN ts.tasks :
         /\ id # NoId /\ ts.tasks[id].content # NoTitle /\ ts.tasks[id].labels_array
         /\ ts.tasks[id].priority \in {NoPriority} \cup 1..4
    /\ \A id \in DOMAIN ts.projects : id # NoId /\ ts.projects[id].name # NoTitle
    /\ \A id \in DOMAIN ts.sections :
         id # NoId /\ ts.sections[id].name # NoTitle /\ ts.sections[id].project_id # NoId
    /\ \A i \in 1..Len(work.answer.items) :
         validateTask(work.answer.items[i]) => work.answer.items[i][1] \in DOMAIN ts.tasks

\* ------------------------------------------------------------------------
\* Staleness of Remote State: replays and the clock against needsFullSync
\* ------------------------------------------------------------------------
MaxTicks == 3

\* the clock advances by a millisecond, or to just before, exactly at or
\* just past the staleness threshold
Elapses == {1, FullSyncMaxAge - 1, FullSyncMaxAge, FullSyncMaxAge + 1}

NotAsked == [done |-> FALSE, result |-> FALSE]

InitStale ==
  /\ server = [projects |-> EmptyMap, sections |-> EmptyMap, tasks |-> EmptyMap]
  /\ serverDirty = {}
  /\ \E token \in {InitialToken, "sync", "rest"}, lastFullSync \in {0, 1} :
       ts = [tasks |-> EmptyMap, projects |-> EmptyMap, sections |-> EmptyMap,
             labels |-> EmptyMap, syncToken |-> token, lastFullSync |-> lastFullSync,
             lastIncrementalSync |-> lastFullSync]
  /\ os = EmptyObsidianState
  /\ files = EmptyMap
  /\ folders = {}
  /\ isRunning = FALSE
  /\ lastSyncTime = 0
  /\ pendingChanges = << >>
  /\ isWatchingFiles = FALSE
  /\ settings = [tokenSet |-> TRUE, dryRunMode |-> FALSE]
  /\ fgDryRun = FALSE
  /\ pc = [op \in Ops |-> "idle"]
  /\ work = [asked |-> NotAsked, fullAt |-> 0, ticks |-> 0]
  /\ log = << >>
  /\ calls = << >>
  /\ lastResult = NoResult
  /\ now = 2
  /\ hist = [tainted |-> FALSE, prevKind |-> "none", prevLog |-> << >>]
  /\ budget = [env |-> 0, calls |-> 0, fail |-> 0]

\* syncFromTodoist asks needsFullSync
AskNeedsFullSync ==
  /\ ~work.asked.done
  /\ work' = [work EXCEPT !.asked = [done |-> TRUE, result |-> needsFullSync(ts, now)]]
  /\ UNCHANGED <<server, serverDirty, ts, os, files, folders, isRunning, lastSyncTime,
                 pendingChanges, isWatchingFiles, settings, fgDryRun, pc, log, calls,
                 lastResult, now, hist, budget>>

\* updateFromSync(mockSyncResponse): a successful full replay
ReplayFull ==
  /\ ts' = updateFromSync(ts, FullPayload(<< >>, << >>, << >>), now)
  /\ work' = [work EXCEPT !.asked = NotAsked, !.fullAt = now]
  /\ UNCHANGED <<server, serverDirty, os, files, folders, isRunning, lastSyncTime,
                 pendingChanges, isWatchingFiles, settings, fgDryRun, pc, log, calls,
                 lastResult, now, hist, budget>>

\* updateFromSync(syncResponse) of an incremental answer
ReplayIncremental ==
  /\ ts.syncToken # InitialToken
  /\ ts' = updateFromSync(ts, [sync_token |-> "sync", full_sync |-> FALSE, items |-> << >>,
                               projects |-> << >>, sections |-> << >>, labels |-> << >>], now)
  /\ work' = [work EXCEPT !.asked = NotAsked]
  /\ UNCHANGED <<server, serverDirty, os, files, folders, isRunning, lastSyncTime,
                 pendingChanges, isWatchingFiles, settings, fgDryRun, pc, log, calls,
                 lastResult, now, hist, budget>>

\* Date.now() moves on
Elapse ==
  /\ work.ticks < MaxTicks
  /\ \E d \in Elapses : now' = now + d
  /\ work' = [work EXCEPT !.asked = NotAsked, !.ticks = @ + 1]
  /\ UNCHANGED <<server, serverDirty, ts, os, files, folders, isRunning, lastSyncTime,
                 pendingChanges, isWatchingFiles, settings, fgDryRun, pc, log, calls,
                 lastResult, hist, budget>>

NextStale == AskNeedsFullSync \/ ReplayFull \/ ReplayIncremental \/ Elapse

SpecStale == InitStale /\ [][NextStale]_vars

\* C27: needsFullSync answers true exactly when the token is '*', or no
\* full sync was ever recorded, or more than 24 hours have passed since the
\* last one; once a full replay has succeeded it answers false until more
\* than 24 hours have passed since that replay.
C27_NeedsFullSync ==
  work.asked.done =>
    /\ work.asked.result <=> \/ ts.syncToken = "*"
                             \/ ts.lastFullSync = 0
                             \/ now - ts.lastFullSync > 24 * 60 * 60 * 1000
    /\ work.fullAt # 0 => (work.asked.result <=> now - work.fullAt > 24 * 60 * 60 * 1000)

\* asked exactly 24 hours after a full replay: not yet stale
C27_Witness ==
  /\ work.asked.done /\ ~work.asked.result
  /\ work.fullAt # 0 /\ now - work.fullAt = 24 * 60 * 60 * 1000

\* ------------------------------------------------------------------------
\* File names: FileGenerator.sanitizeFileName against the test harness of
\* scripts/dryrun_simulate.js
\* ------------------------------------------------------------------------
\* the harness, step by step as its regular expressions read
HarnessSanitize(name) ==
  LET \* /\[([^\]]+)\]\((.*?)\)/ matching at <<i, j, k>>: s[i] = "[", the
      \* next "]" at j after at least one character, "(" behind it, and
      \* the next ")" at k
      matches(s) ==
        {m \in {i \in 1..Len(s) : s[i] = "["} \X {j \in 1..Len(s) : s[j] = "]"}
                  \X {k \in 1..Len(s) : s[k] = ")"} :
           /\ m[1] + 1 < m[2] /\ m[2] + 1 < m[3]
           /\ s[m[2] + 1] = "("
           /\ \A x \in (m[1] + 1)..(m[2] - 1) : s[x] # "]"
           /\ \A x \in (m[2] + 2)..(m[3] - 1) : s[x] # ")"}
      first(s) == CHOOSE m \in matches(s) : \A o \in matches(s) : m[1] <= o[1]
      RECURSIVE links(_)
      links(s) ==
        IF matches(s) = {} THEN s
        ELSE SubSeq(s, 1, first(s)[1] - 1)
               \o SubSeq(s, first(s)[1] + 1, first(s)[2] - 1)
               \o links(SubSeq(s, first(s)[3] + 1, Len(s)))
      replaced(s) ==
        [i \in 1..Len(s) |->
           IF s[i] \in {"<", ">", ":", "\"", "/", "\\", "|", "?", "*"} THEN "_"
           ELSE IF s[i] = "." THEN "_" ELSE s[i]]
      inked(s) == {i \in 1..Len(s) : s[i] # " "}
      trimmed(s) ==
        IF inked(s) = {} THEN << >>
        ELSE SubSeq(s, CHOOSE i \in inked(s) : \A x \in inked(s) : i <= x,
                       CHOOSE i \in inked(s) : \A x \in inked(s) : i >= x)
      cut(s) == SubSeq(s, 1, IF Len(s) < 100 THEN Len(s) ELSE 100)
      fresh(p) == ~(p[1] = "_" /\ p[2] = "_")
      runs(s) ==
        LET paired == [i \in 1..Len(s) |-> <<s[i], IF i > 1 THEN s[i - 1] ELSE "">>]
            kept == SelectSeq(paired, fresh)
        IN [i \in 1..Len(kept) |-> kept[i][1]]
      v == runs(cut(trimmed(replaced(links(name)))))
  IN IF v = << >> THEN <<"u", "n", "t", "i", "t", "l", "e", "d">> ELSE v

MaxShortLen == 3
NameChars == {"a", " ", ".", "_", "[", "]", "(", ")", ":"}

RECURSIVE NamesUpTo(_)
NamesUpTo(n) ==
  IF n = 0 THEN {<< >>}
  ELSE NamesUpTo(n - 1) \cup {Append(s, c) : s \in NamesUpTo(n - 1), c \in NameChars}

Filler(n) == [i \in 1..n |-> "a"]

\* short names of every shape, names around one markdown link, and names
\* about as long as the length limit
SanitizeInputs ==
  NamesUpTo(MaxShortLen)
    \cup {a \o <<"[">> \o b \o <<"]", "(">> \o c \o <<")">> \o d :
            a \in NamesUpTo(1), b \in NamesUpTo(1), c \in NamesUpTo(1), d \in NamesUpTo(1)}
    \cup {a \o Filler(n) \o d :
            a \in {<< >>, <<" ">>, <<".">>}, n \in (MaxNameLen - 2)..MaxNameLen,
            d \in {x \in NamesUpTo(2) : \A i \in 1..Len(x) : x[i] \in {"a", " ", ".", "_"}}}

NotRun == [done |-> FALSE, out |-> << >>]

InitSanitize ==
  /\ server = [projects |-> EmptyMap, sections |-> EmptyMap, tasks |-> EmptyMap]
  /\ serverDirty = {}
  /\ ts = [tasks |-> EmptyMap, projects |-> EmptyMap, sections |-> EmptyMap,
           labels |-> EmptyMap, syncToken |-> InitialToken, lastFullSync |-> 0,
           lastIncrementalSync |-> 0]
  /\ os = EmptyObsidianState
  /\ files = EmptyMap
  /\ folders = {}
  /\ isRunning = FALSE
  /\ lastSyncTime = 0
  /\ pendingChanges = << >>
  /\ isWatchingFiles = FALSE
  /\ settings = [tokenSet |-> TRUE, dryRunMode |-> FALSE]
  /\ fgDryRun = FALSE
  /\ pc = [op \in Ops |-> "idle"]
  /\ \E name \in SanitizeInputs : work = [name |-> name, plugin |-> NotRun, harness |-> NotRun]
  /\ log = << >>
  /\ calls = << >>
  /\ lastResult = NoResult
  /\ now = 1
  /\ hist = [tainted |-> FALSE, prevKind |-> "none", prevLog |-> << >>]
  /\ budget = [env |-> 0, calls |-> 0, fail |-> 0]

\* FileGenerator.sanitizeFileName(name)
RunSanitize ==
  /\ ~work.plugin.done
  /\ work' = [work EXCEPT !.plugin = [done |-> TRUE, out |-> sanitizeFileName(work.name)]]
  /\ UNCHANGED <<server, serverDirty, ts, os, files, folders, isRunning, lastSyncTime,
                 pendingChanges, isWatchingFiles, settings, fgDryRun, pc, log, calls,
                 lastResult, now, hist, budget>>

\* the harness run on the same name
RunHarness ==
  /\ ~work.harness.done
  /\ work' = [work EXCEPT !.harness = [done |-> TRUE, out |-> HarnessSanitize(work.name)]]
  /\ UNCHANGED <<server, serverDirty, ts, os, files, folders, isRunning, lastSyncTime,
                 pendingChanges, isWatchingFiles, settings, fgDryRun, pc, log, calls,
                 lastResult, now, hist, budget>>

NextSanitize == RunSanitize \/ RunHarness

SpecSanitize == InitSanitize /\ [][NextSanitize]_vars

\* C28: for every name, sanitizeFileName returns what the reference
\* returns (links collapsed to their text, reserved characters and dots
\* replaced by underscores, trimmed, cut to 100 characters, runs of
\* underscores collapsed, 'untitled' when nothing is left); characters
\* outside these rules, plain parentheses among them, are kept.
C28_SanitizeMatchesReference ==
  /\ (work.plugin.done /\ work.harness.done) => work.plugin.out = work.harness.out
  /\ (/\ work.plugin.done
      /\ work.name # << >> /\ Len(work.name) <= 100
      /\ \A i \in 1..Len(work.name) : work.name[i] \in {"a", "(", ")"})
       => work.plugin.out = work.name

\* a name whose cut at 100 characters leaves a trailing blank, sanitized
\* by both
C28_Witness ==
  /\ work.plugin.done /\ work.harness.done
  /\ Len(work.name) > 100
  /\ Len(work.plugin.out) = 100 /\ work.plugin.out[100] = " "

\* C29: within one performSync a task yields at most one updateTask call
\* and at most one closeTask / reopenTask call, also when its document is
\* in the pending queue and modified since the watermark.
C29_OnePushPerTask ==
  pc["performSync"] # "idle" =>
    \A id \in TaskIds :
      /\ Cardinality({i \in 1..Len(calls) : calls[i].id = id /\ calls[i].api = "updateTask"}) <= 1
      /\ Cardinality({i \in 1..Len(calls) :
                        calls[i].id = id /\ calls[i].api \in {"closeTask", "reopenTask"}}) <= 1

\* ------------------------------------------------------------------------
\* The project loop and the section loop of reconcileStates, entered with
\* documents of an earlier pass and a workspace that has changed since
\* ------------------------------------------------------------------------
ProjectStates ==
  {[ProjectRec(name) EXCEPT !.color = color, !.is_favorite = favorite] :
     name \in ProjectNames, color \in {"blue", "red"}, favorite \in BOOLEAN}

SectionStates == {SectionRec(name, "P1") : name \in {<<"s">>, <<"t">>}}

\* the documents an earlier pass at time t wrote for the project and the section
EarlierDocs(project, section, t) ==
  (ProjectNotePath(project) :> Doc(buildProjectFrontmatter("P1", project, t), FALSE, t))
    @@ (SectionNotePath(section, project.name)
          :> Doc(buildSectionFrontmatter("S1", section, t), FALSE, t))

InitReconcile ==
  /\ \E project \in ProjectStates, section \in SectionStates :
       /\ server = [projects |-> [id \in {"P1"} |-> project],
                    sections |-> [id \in {"S1"} |-> section], tasks |-> EmptyMap]
       /\ ts = [tasks |-> EmptyMap, projects |-> [id \in {"P1"} |-> project],
                sections |-> [id \in {"S1"} |-> section], labels |-> EmptyMap,
                syncToken |-> "sync", lastFullSync |-> 1, lastIncrementalSync |-> 3]
  /\ \E project \in ProjectStates, section \in SectionStates, t \in {1, 2},
        kept \in SUBSET {"project", "section"} :
       LET docs == EarlierDocs(project, section, t)
           projectPath == ProjectNotePath(project)
           sectionPath == SectionNotePath(section, project.name)
           paths == {projectPath : k \in kept \cap {"project"}}
                      \cup {sectionPath : k \in kept \cap {"section"}}
           scannedP == IF "project" \in kept
                       THEN setNote(EmptyObsidianState, "project", "P1",
                                    ScannedNote(projectPath, docs[projectPath]))
                       ELSE EmptyObsidianState
       IN /\ files = [path \in paths |-> docs[path]]
          /\ folders = {SyncFolder} \cup UNION {WithAncestors(ParentFolder(path)) : path \in paths}
          /\ os = IF "section" \in kept
                  THEN setNote(scannedP, "section", "S1",
                               ScannedNote(sectionPath, docs[sectionPath]))
                  ELSE scannedP
  /\ serverDirty = {}
  /\ isRunning = TRUE
  /\ lastSyncTime = 2
  /\ pendingChanges = << >>
  /\ isWatchingFiles = FALSE
  /\ \E dry \in BOOLEAN : settings = [tokenSet |-> TRUE, dryRunMode |-> dry] /\ fgDryRun = dry
  /\ pc = [op \in Ops |-> IF op = "pull" THEN "recon" ELSE "idle"]
  /\ work = [IdleWork EXCEPT !.fetches = <<[kind |-> "incremental", failed |-> "none"]>>]
  /\ log = << >>
  /\ calls = << >>
  /\ lastResult = NoResult
  /\ now = 3
  /\ hist = [tainted |-> TRUE, prevKind |-> "none", prevLog |-> << >>]
  /\ budget = [env |-> 0, calls |-> 0, fail |-> MaxFail]

NextReconcile ==
  \/ \E op \in Ops : RecBegin(op)
  \/ \E op \in Ops : RecProject(op)
  \/ \E op \in Ops : RecSection(op)
  \/ \E op \in Ops : Finish(op)

SpecReconcile == InitReconcile /\ [][NextReconcile]_vars

\* a step of the project loop or of the section loop that reconciled one entity
ContainerStep(op) == pc[op] \in {"recP", "recS"} /\ Len(log') = Len(log) + 1

\* C30: for a project that has a document in Local State the project loop
\* decides 'updated' exactly when the name, the color or the favorite flag
\* of the document differs from the project's, and for a section that has
\* one the section loop decides 'updated' exactly when the name differs,
\* whatever the timestamps; otherwise it decides 'skipped', and a skip
\* writes nothing.
C30_ContainerDecision ==
  [][\A op \in Ops :
       ContainerStep(op) =>
         LET id == Logged.id
         IN /\ (pc[op] = "recP" /\ id \in DOMAIN os.projectNotes) =>
                 /\ Logged.kind = "project"
                 /\ Logged.result \in {"updated", "skipped"}
                 /\ Logged.result = "updated" <=>
                      \/ os.projectNotes[id].name # ts.projects[id].name
                      \/ os.projectNotes[id].frontmatter.color # ts.projects[id].color
                      \/ os.projectNotes[id].frontmatter.is_favorite # ts.projects[id].is_favorite
            /\ (pc[op] = "recS" /\ id \in DOMAIN os.sectionNotes) =>
                 /\ Logged.kind = "section"
                 /\ Logged.result \in {"updated", "skipped"}
                 /\ Logged.result = "updated" <=>
                      os.sectionNotes[id].name # ts.sections[id].name
            /\ Logged.result = "skipped" =>
                 (files' = files /\ os' = os /\ folders' = folders)]_vars

\* a dry pass has decided to update a project whose document has the
\* project's name but another color, and a section whose document has
\* another name
C30_Witness ==
  /\ \E i \in 1..Len(log) : log[i].kind = "project" /\ log[i].result = "updated"
  /\ \E i \in 1..Len(log) : log[i].kind = "section" /\ log[i].result = "updated"
  /\ \E p \in DOMAIN files :
       /\ files[p].fm.todoist_type = "project"
       /\ files[p].fm.title = ts.projects["P1"].name
       /\ files[p].fm.color # ts.projects["P1"].color
  /\ \E p \in DOMAIN files :
       /\ files[p].fm.todoist_type = "section"
       /\ files[p].fm.title # ts.sections["S1"].name

\* C31: the watermark of the safety net moves only in the step that ends
\* a successful performSync; a failed run and the entry points
\* fetchFromTodoist, scan and pull leave it as it was.
C31_WatermarkOnlyAfterPush ==
  [][lastSyncTime' # lastSyncTime =>
       /\ pc["performSync"] = "finish"
       /\ lastResult' = Success("performSync")]_vars

\* ------------------------------------------------------------------------
\* The queue after a reconcile pass: createOrUpdateTaskNote has rewritten
\* the task documents (vault.modify -> 'modify' event -> onFileModified),
\* nobody edits them, and the drains process the queued paths
\* ------------------------------------------------------------------------
WrittenTasks ==
  {[t \in TaskIds |-> TaskRec(IF t = "T1" THEN TitleDot ELSE TitleB, priority[t],
                              checked[t], "P1", NoId, 2)] :
     priority \in [TaskIds -> Priorities], checked \in [TaskIds -> BOOLEAN]}

WrittenPath(task) == TaskNotePath(task, NameP, NoTitle, NoPath)

InitWritten ==
  /\ \E tasks \in WrittenTasks, first \in TaskIds :
       /\ server = [projects |-> [p \in ProjectIds |-> ProjectRec(NameP)],
                    sections |-> EmptyMap, tasks |-> tasks]
       /\ ts = [tasks |-> tasks, projects |-> [p \in ProjectIds |-> ProjectRec(NameP)],
                sections |-> EmptyMap, labels |-> EmptyMap, syncToken |-> "sync",
                lastFullSync |-> 1, lastIncrementalSync |-> 2]
       /\ files = [path \in {WrittenPath(tasks[t]) : t \in TaskIds} |->
                     LET t == CHOOSE t \in TaskIds : WrittenPath(tasks[t]) = path
                     IN Doc(buildTaskFrontmatter(t, tasks[t], NameP, 2), FALSE, 2)]
       /\ pendingChanges =
            <<WrittenPath(tasks[first])>>
              \o [i \in 1..Cardinality(TaskIds \ {first}) |->
                    WrittenPath(tasks[CHOOSE t \in TaskIds : t # first])]
  /\ serverDirty = {}
  /\ folders = WithAncestors(<<sanitizeFileName(NameP)>>)
  /\ os \in ScanResults(files, folders)
  /\ isRunning = FALSE
  /\ lastSyncTime = 2
  /\ isWatchingFiles = TRUE
  /\ settings = [tokenSet |-> TRUE, dryRunMode |-> FALSE]
  /\ fgDryRun = FALSE
  /\ pc = [op \in Ops |-> "idle"]
  /\ work = [idx |-> [d \in Drains |-> 0], fresh |-> {},
             attempts |-> [path \in DOMAIN files |-> 0]]
  /\ log = << >>
  /\ calls = << >>
  /\ lastResult = NoResult
  /\ now = 3
  /\ hist = [tainted |-> FALSE, prevKind |-> "none", prevLog |-> << >>]
  /\ budget = [env |-> 0, calls |-> 0, fail |-> MaxFail]

NextWritten ==
  \/ \E d \in Drains : PendingBegin(d)
  \/ \E d \in Drains : PendingStep(d)
  \/ \E d \in Drains : PendingClear(d)

SpecWritten == InitWritten /\ [][NextWritten]_vars

\* C32: draining the path of a document that reconcile wrote and nobody
\* edited issues no remote mutation, whatever the task's remote state,
\* completed tasks included.
C32_WrittenDocQuiet == calls = << >>

\* ------------------------------------------------------------------------
\* The stamp on its own: SyncEngine.updateFileSyncTimestamp reads a document
\* the materializer wrote, sets two properties and writes the text back with
\* the engine's own serializer. A document is the sequence of its lines
\* ------------------------------------------------------------------------
LastSyncKey == <<"l", "a", "s", "t", "_", "s", "y", "n", "c">>
SyncStatusKey == <<"s", "y", "n", "c", "_", "s", "t", "a", "t", "u", "s">>
SyncedText == <<"s", "y", "n", "c", "e", "d">>

\* new Date().toISOString() at time t (the colons of the time of day kept)
IsoText(t) == <<"T">> \o NumberText(t) \o <<":", "0", "0", "Z">>

\* SyncEngine.serializeFrontmatter: the lines of the frontmatter block
SyncEngineSerializeFrontmatter(frontmatter) ==
  LET entry(key, value) ==
        CASE value.t = "arr" ->
               <<key \o <<":">>>> \o
               [i \in 1..Len(value.v) |-> <<" ", " ", "-", " ">> \o value.v[i]]
          [] value.t = "str" ->
               IF IndexFrom(value.v, ":", 1) > 0
               THEN <<key \o <<":", " ", "\"">> \o value.v \o <<"\"">>>>
               ELSE <<key \o <<":", " ">> \o value.v>>
          [] value.t = "num" -> <<key \o <<":", " ">> \o NumberText(value.v)>>
          [] value.t = "bool" ->
               <<key \o <<":", " ">> \o (IF value.v THEN TrueText ELSE FalseText)>>
      RECURSIVE entries(_)
      entries(keys) ==
        IF keys = {} THEN << >>
        ELSE LET key == CHOOSE k \in keys : TRUE
             IN entry(key, frontmatter[key]) \o entries(keys \ {key})
  IN <<Delimiter>> \o entries(DOMAIN frontmatter) \o <<Delimiter>>

\* FrontmatterParser.parseFrontmatter, the body: the lines behind the
\* second delimiter
BodyOf(lines) ==
  LET ends == {i \in 2..Len(lines) : lines[i] = Delimiter}
  IN SubSeq(lines, (CHOOSE i \in ends : \A j \in ends : i <= j) + 1, Len(lines))

\* SyncEngine.updateFileSyncTimestamp: the text written back at time t
updateFileSyncTimestamp(lines, t) ==
  LET parsed == parseFrontmatter(lines)
  IN IF ~parsed.ok THEN lines
     ELSE SyncEngineSerializeFrontmatter(
            Put(Put(parsed.frontmatter, LastSyncKey, [t |-> "str", v |-> IsoText(t)]),
                SyncStatusKey, [t |-> "str", v |-> SyncedText]))
          \o BodyOf(lines)

\* what a YAML reader finds in the frontmatter block of a document: block
\* sequences, double-quoted strings, booleans, numbers and plain strings
YamlProperties(lines) ==
  LET block == SubSeq(lines, 2, Len(lines) - Len(BodyOf(lines)) - 1)
      isKey(i) == block[i] # << >> /\ Head(block[i]) # " " /\ IndexFrom(block[i], ":", 1) > 0
      isItem(i) == Len(block[i]) >= 4 /\ SubSeq(block[i], 1, 4) = <<" ", " ", "-", " ">>
      key(i) == SubSeq(block[i], 1, IndexFrom(block[i], ":", 1) - 1)
      text(i) == Trim(SubSeq(block[i], IndexFrom(block[i], ":", 1) + 1, Len(block[i])))
      itemsOf(i) == {j \in (i + 1)..Len(block) : \A m \in (i + 1)..j : isItem(m)}
      RECURSIVE unescape(_)
      unescape(str) ==
        IF str = << >> THEN << >>
        ELSE IF Len(str) >= 2 /\ str[1] = "\\" /\ str[2] = "\""
        THEN <<"\"">> \o unescape(SubSeq(str, 3, Len(str)))
        ELSE <<Head(str)>> \o unescape(Tail(str))
      digits(str) == str # << >> /\ \A n \in 1..Len(str) : \E d \in 1..10 : DigitChars[d] = str[n]
      value(i) ==
        IF text(i) = << >> /\ itemsOf(i) # {}
        THEN [t |-> "arr",
              v |-> [n \in 1..Cardinality(itemsOf(i)) |-> SubSeq(block[i + n], 5, Len(block[i + n]))]]
        ELSE IF Len(text(i)) >= 2 /\ Head(text(i)) = "\"" /\ text(i)[Len(text(i))] = "\""
        THEN [t |-> "str", v |-> unescape(SubSeq(text(i), 2, Len(text(i)) - 1))]
        ELSE IF text(i) \in {TrueText, FalseText} THEN [t |-> "bool", v |-> text(i)]
        ELSE IF digits(text(i)) THEN [t |-> "num", v |-> text(i)]
        ELSE [t |-> "str", v |-> text(i)]
  IN {<<key(i), value(i)>> : i \in {j \in 1..Len(block) : isKey(j)}}

BodyTexts == {<< >>, << <<"-", " ", "[", "x", "]", " ", "a">> >>}

InitStamp ==
  /\ server = [projects |-> EmptyMap, sections |-> EmptyMap, tasks |-> EmptyMap]
  /\ serverDirty = {}
  /\ ts = [tasks |-> EmptyMap, projects |-> EmptyMap, sections |-> EmptyMap,
           labels |-> EmptyMap, syncToken |-> InitialToken, lastFullSync |-> 0,
           lastIncrementalSync |-> 0]
  /\ os = EmptyObsidianState
  /\ files = EmptyMap
  /\ folders = {}
  /\ isRunning = FALSE
  /\ lastSyncTime = 0
  /\ pendingChanges = << >>
  /\ isWatchingFiles = FALSE
  /\ settings = [tokenSet |-> TRUE, dryRunMode |-> FALSE]
  /\ fgDryRun = FALSE
  /\ pc = [op \in Ops |-> "idle"]
  /\ \E value \in [t : {"str"}, v : Texts \ {<< >>}] \cup [t : {"num"}, v : 0..MaxNumber]
                  \cup [t : {"bool"}, v : BOOLEAN]
                  \cup [t : {"arr"}, v : UNION {[1..n -> ArrayItems] : n \in 1..2}],
        body \in BodyTexts :
       work = [stage |-> "bag",
               bag |-> (PropertyKey :> value) @@ (LastSyncKey :> [t |-> "str", v |-> IsoText(1)])
                         @@ (SyncStatusKey :> [t |-> "str", v |-> SyncedText]),
               body |-> body, written |-> << >>, stamped |-> << >>]
  /\ log = << >>
  /\ calls = << >>
  /\ lastResult = NoResult
  /\ now = 2
  /\ hist = [tainted |-> FALSE, prevKind |-> "none", prevLog |-> << >>]
  /\ budget = [env |-> 0, calls |-> 0, fail |-> 0]

\* the materializer (or the user, in the same notation) writes the document
WriteDocument ==
  /\ work.stage = "bag"
  /\ work' = [work EXCEPT !.stage = "written",
                          !.written = serializeFrontmatter(work.bag) \o work.body]
  /\ UNCHANGED <<server, serverDirty, ts, os, files, folders, isRunning, lastSyncTime,
                 pendingChanges, isWatchingFiles, settings, fgDryRun, pc, log, calls,
                 lastResult, now, hist, budget>>

\* a push stamps it
StampDocument ==
  /\ work.stage = "written"
  /\ work' = [work EXCEPT !.stage = "stamped",
                          !.stamped = updateFileSyncTimestamp(work.written, now)]
  /\ UNCHANGED <<server, serverDirty, ts, os, files, folders, isRunning, lastSyncTime,
                 pendingChanges, isWatchingFiles, settings, fgDryRun, pc, log, calls,
                 lastResult, now, hist, budget>>

NextStamp == WriteDocument \/ StampDocument

SpecStamp == InitStamp /\ [][NextStamp]_vars

\* C33: the stamp changes last_sync and sync_status only: the body and
\* every other property of the frontmatter, arrays included, read the same
\* after the stamp as before it.
C33_StampFrame ==
  work.stage = "stamped" =>
    /\ BodyOf(work.stamped) = BodyOf(work.written)
    /\ {e \in YamlProperties(work.stamped) : e[1] \notin {LastSyncKey, SyncStatusKey}}
         = {e \in YamlProperties(work.written) : e[1] \notin {LastSyncKey, SyncStatusKey}}

\* C34: a push stamps a document only if every remote call it issued for
\* the document succeeded: a step that issues calls and changes the
\* document's last_sync is a step in which no request failed.
C34_StampOnlyAfterSuccess ==
  [][(/\ Len(calls') > Len(calls)
      /\ \E path \in DOMAIN files \cap DOMAIN files' :
           files'[path].fm.last_sync # files[path].fm.last_sync)
       => ~FailingStep]_vars

\* ------------------------------------------------------------------------
\* The settings tab while a run is suspended: updateSettings does not look
\* at the single-flight flag, saveSettings calls it whenever the user
\* changes a setting
\* ------------------------------------------------------------------------
updateSettingsAnyTime ==
  /\ budget.env > 0
  /\ budget' = [budget EXCEPT !.env = @ - 1]
  /\ \E newSettings \in {[settings EXCEPT !.tokenSet = ~@],
                        [settings EXCEPT !.dryRunMode = ~@]} :
       /\ settings' = newSettings
       /\ fgDryRun' = newSettings.dryRunMode
  /\ hist' = TaintIf(isRunning)
  /\ UNCHANGED <<server, serverDirty, ts, os, files, folders, isRunning,
                 lastSyncTime, pendingChanges, isWatchingFiles, pc, work, log,
                 calls, lastResult, now>>

NextSettings == Next \/ updateSettingsAnyTime

SpecSettings == Init /\ [][NextSettings]_vars

\* C35: the dry-run mode a run starts with stays in effect until the run
\* ends: while a run is in flight neither the engine's flag nor the
\* materializer's changes.
C35_ModeHeldDuringRun ==
  [][(isRunning /\ isRunning') =>
       (settings'.dryRunMode = settings.dryRunMode /\ fgDryRun' = fgDryRun)]_vars

\* the Local State entry of an entity is there, its path is a document in
\* storage and the document carries the entity's id
Mirrored(notes, id) ==
  /\ id \in DOMAIN notes
  /\ notes[id].filePath \in DOMAIN files
  /\ files[notes[id].filePath].fm.todoist_id = id

\* C36: when a reconcile pass has gone through with dry-run off, every
\* task of getAllTasks, every project of getAllProjects and every section
\* whose project was reconciled has a Local State entry whose path exists in
\* storage and carries the entity's id.
C36_PassMirrorsRemote ==
  \A op \in Ops :
    (IsReconcileOp(op) /\ pc[op] = "finish" /\ ~fgDryRun) =>
      /\ \A id \in getAllTasks(ts) : Mirrored(os.taskNotes, id)
      /\ \A id \in getAllProjects(ts) : Mirrored(os.projectNotes, id)
      /\ \A id \in getAllSections(ts) :
           ts.sections[id].project_id \in DOMAIN work.projectMap
             => Mirrored(os.sectionNotes, id)

\* ids carried by an array of a payload
Mentioned(entries) == {entries[i][1] : i \in 1..Len(entries)}

\* the map keeps, for every id the array does not carry, what it held before
Untouched(map, before, entries) ==
  \A id \in (DOMAIN map \cup DOMAIN before) \ Mentioned(entries) :
     id \in DOMAIN map /\ id \in DOMAIN before /\ map[id] = before[id]

\* the map holds the non-deleted entries of the array and nothing else
ExactlyLive(map, entries) ==
  /\ DOMAIN map = {e[1] : e \in Live(entries)}
  /\ \A e \in Live(entries) : map[e[1]] = e[2]

\* C37: replaying an incremental payload leaves every entity the payload does
\* not mention as it was; replaying a full payload leaves Remote State holding
\* exactly the non-deleted entities of the payload, every other entity dropped.
C37_ReplayFrame ==
  Replayed =>
     IF work.payload.full_sync
     THEN /\ ExactlyLive(ts.tasks, work.payload.items)
          /\ ExactlyLive(ts.projects, work.payload.projects)
          /\ ExactlyLive(ts.sections, work.payload.sections)
          /\ ExactlyLive(ts.labels, work.payload.labels)
     ELSE /\ Untouched(ts.tasks, work.before.tasks, work.payload.items)
          /\ Untouched(ts.projects, work.before.projects, work.payload.projects)
          /\ Untouched(ts.sections, work.before.sections, work.payload.sections)
          /\ Untouched(ts.labels, work.before.labels, work.payload.labels)

\* a full payload that drops a task and a project held before and brings a task
C37_Witness ==
  /\ Replayed /\ work.payload.full_sync
  /\ DOMAIN work.before.tasks \ Mentioned(work.payload.items) # {}
  /\ DOMAIN work.before.projects \ Mentioned(work.payload.projects) # {}
  /\ Live(work.payload.items) # {}
  /\ DOMAIN ts.tasks # DOMAIN work.before.tasks

\* ------------------------------------------------------------------------
\* reconcileStates entered with documents of an earlier pass whose entities
\* have since been tombstoned in, or dropped from, Remote State
\* ------------------------------------------------------------------------
RemoteFates == {"live", "tombstoned", "absent"}

\* Remote State's map for the entities whose fate is not "absent"
HeldMap(ids, fate, rec) ==
  [id \in {i \in ids : fate[i] # "absent"} |->
     [rec[id] EXCEPT !.is_deleted = (fate[id] = "tombstoned")]]

\* the document an earlier pass at time 1 wrote for a task titled title
EarlierTaskPath(title, projectName) ==
  getTaskFolderPath(projectName, NoTitle) \o <<TaskFile(title)>>

InitGone ==
  /\ \E fateP \in [ProjectIds -> {"live", "absent"}], fateT \in [TaskIds -> RemoteFates],
        titleNow \in [TaskIds -> {TitleDot, TitleQ}],
        had \in SUBSET TaskIds, titleThen \in [TaskIds -> {TitleDot, TitleB}] :
       LET projects == HeldMap(ProjectIds, fateP, [id \in ProjectIds |-> ProjectRec(NameP)])
           tasks == HeldMap(TaskIds, fateT,
                            [id \in TaskIds |-> TaskRec(titleNow[id], 1, FALSE, "P1", NoId, 1)])
           projectPath == ProjectNotePath(ProjectRec(NameP))
           projectDoc == Doc(buildProjectFrontmatter("P1", ProjectRec(NameP), 1), FALSE, 1)
           taskPath == [id \in had |-> EarlierTaskPath(titleThen[id], NameP)]
           taskDoc == [id \in had |->
                         Doc(buildTaskFrontmatter(id, TaskRec(titleThen[id], 1, FALSE, "P1", NoId, 1),
                                                  NameP, 1), FALSE, 1)]
           paths == {projectPath} \cup {taskPath[id] : id \in had}
       IN /\ \A a, b \in had : taskPath[a] = taskPath[b] => a = b
          /\ server = [projects |-> [id \in getAllProjects([projects |-> projects]) |-> projects[id]],
                       sections |-> EmptyMap,
                       tasks |-> [id \in getAllTasks([tasks |-> tasks]) |-> tasks[id]]]
          /\ ts = [tasks |-> tasks, projects |-> projects, sections |-> EmptyMap,
                   labels |-> EmptyMap, syncToken |-> "sync", lastFullSync |-> 1,
                   lastIncrementalSync |-> 3]
          /\ files = [path \in paths |->
                        IF path = projectPath THEN projectDoc
                        ELSE taskDoc[CHOOSE id \in had : taskPath[id] = path]]
          /\ folders = {SyncFolder} \cup UNION {WithAncestors(ParentFolder(path)) : path \in paths}
          /\ os \in ScanResults(files, folders)
  /\ serverDirty = {}
  /\ isRunning = TRUE
  /\ lastSyncTime = 2
  /\ pendingChanges = << >>
  /\ isWatchingFiles = FALSE
  /\ \E dry \in BOOLEAN : settings = [tokenSet |-> TRUE, dryRunMode |-> dry] /\ fgDryRun = dry
  /\ pc = [op \in Ops |-> IF op = "pull" THEN "recon" ELSE "idle"]
  /\ work = [IdleWork EXCEPT !.fetches = <<[kind |-> "incremental", failed |-> "none"]>>]
  /\ log = << >>
  /\ calls = << >>
  /\ lastResult = NoResult
  /\ now = 3
  /\ hist = [tainted |-> TRUE, prevKind |-> "none", prevLog |-> << >>]
  /\ budget = [env |-> 0, calls |-> 0, fail |-> MaxFail]

NextGone ==
  \/ \E op \in Ops : RecBegin(op)
  \/ \E op \in Ops : RecProject(op)
  \/ \E op \in Ops : RecTask(op)
  \/ \E op \in Ops : Finish(op)

SpecGone == InitGone /\ [][NextGone]_vars

\* the entities that have a Local State entry and are tombstoned in, or
\* absent from, Remote State
GoneEntities ==
  {<<"task", id>> : id \in DOMAIN os.taskNotes \ getAllTasks(ts)}
    \cup {<<"project", id>> : id \in DOMAIN os.projectNotes \ getAllProjects(ts)}
    \cup {<<"section", id>> : id \in DOMAIN os.sectionNotes \ getAllSections(ts)}

\* C38: a step of reconcileStates leaves the document and the Local State
\* entry of every entity that is tombstoned in, or absent from, Remote State
\* exactly as they are.
C38_GoneLeftAlone ==
  [][\A e \in GoneEntities :
       LET notes == os[NotesField(e[1])]
           path == notes[e[2]].filePath
       IN /\ e[2] \in DOMAIN os'[NotesField(e[1])]
          /\ os'[NotesField(e[1])][e[2]] = notes[e[2]]
          /\ path \in DOMAIN files => (path \in DOMAIN files' /\ files'[path] = files[path])]_vars

\* ------------------------------------------------------------------------
\* The Real-time Sync toggle: startFileWatching / stopFileWatching and the
\* interval timers that drain the queue. work.timers: the intervals set by
\* setInterval and not cleared; work.toggles: the toggles left
\* ------------------------------------------------------------------------
MaxToggles == 3

\* initializeSyncEngine: watching is started when realTimeSyncEnabled is set
InitWatch ==
  /\ server = [projects |-> [p \in ProjectIds |-> ProjectRec(NameP)],
               sections |-> EmptyMap, tasks |-> QueueTasks]
  /\ serverDirty = {}
  /\ ts = [tasks |-> QueueTasks, projects |-> server.projects, sections |-> EmptyMap,
           labels |-> EmptyMap, syncToken |-> "rest", lastFullSync |-> 1,
           lastIncrementalSync |-> 1]
  /\ files = [path \in {TaskNotePath(QueueTasks[t], NameP, NoTitle, NoPath) : t \in TaskIds} |->
                LET t == CHOOSE t \in TaskIds :
                           TaskNotePath(QueueTasks[t], NameP, NoTitle, NoPath) = path
                IN Doc(buildTaskFrontmatter(t, QueueTasks[t], NameP, 1), FALSE, 1)]
  /\ folders = WithAncestors(<<sanitizeFileName(NameP)>>)
  /\ os \in ScanResults(files, folders)
  /\ isRunning = FALSE
  /\ lastSyncTime = 1
  /\ pendingChanges = << >>
  /\ isWatchingFiles \in BOOLEAN
  /\ settings = [tokenSet |-> TRUE, dryRunMode |-> FALSE]
  /\ fgDryRun = FALSE
  /\ pc = [op \in Ops |-> "idle"]
  /\ work = [idx |-> [d \in Drains |-> 0], fresh |-> {},
             attempts |-> [path \in DOMAIN files |-> 0],
             timers |-> IF isWatchingFiles THEN 1 ELSE 0, toggles |-> MaxToggles]
  /\ log = << >>
  /\ calls = << >>
  /\ lastResult = NoResult
  /\ now = 1
  /\ hist = [tainted |-> FALSE, prevKind |-> "none", prevLog |-> << >>]
  /\ budget = [env |-> MaxEnv, calls |-> 0, fail |-> MaxFail]

\* SyncEngine.startFileWatching: returns when already watching, otherwise
\* sets the flag and one more interval
startFileWatching ==
  /\ work.toggles > 0
  /\ isWatchingFiles' = TRUE
  /\ work' = [work EXCEPT !.toggles = @ - 1,
                          !.timers = IF isWatchingFiles THEN @ ELSE @ + 1]
  /\ UNCHANGED <<server, serverDirty, ts, os, files, folders, isRunning, lastSyncTime,
                 pendingChanges, settings, fgDryRun, pc, log, calls, lastResult,
                 now, hist, budget>>

\* SyncEngine.stopFileWatching: the flag, pendingChanges.clear(); no interval
\* is cleared
stopFileWatching ==
  /\ work.toggles > 0
  /\ isWatchingFiles' = FALSE
  /\ pendingChanges' = << >>
  /\ work' = [work EXCEPT !.toggles = @ - 1]
  /\ UNCHANGED <<server, serverDirty, ts, os, files, folders, isRunning, lastSyncTime,
                 settings, fgDryRun, pc, log, calls, lastResult, now, hist, budget>>

\* the callback of an interval: processPendingChanges when the queue holds
\* an entry
TimerFires == work.timers > 0 /\ PendingBegin("timer")

NextWatch ==
  \/ startFileWatching
  \/ stopFileWatching
  \/ FileModified
  \/ TimerFires
  \/ PendingStep("timer")
  \/ PendingClear("timer")

SpecWatch == InitWatch /\ [][NextWatch]_vars

\* C39: at most one drain timer is active at any time, and while watching is
\* stopped no drain timer is active and the queue is empty.
C39_OneDrainTimer ==
  /\ work.timers <= 1
  /\ ~isWatchingFiles => (work.timers = 0 /\ pendingChanges = << >>)

\* the entity maps hold, for the id, a note whose document is at the path
HeldAt(st, id, path) ==
  \E f \in {"taskNotes", "projectNotes", "sectionNotes"} :
     id \in DOMAIN st[f] /\ st[f][id].filePath = path

\* C40: the path-to-id index of Local State agrees with the entity maps:
\* whenever getTodoistIdForPath(p) = id, the note held for id has filePath p,
\* so that onFileDeleted(p) removes only the entity whose document is at p.
C40_ReverseIndexAgrees ==
  \A path \in DOMAIN os.filePathToTodoistId :
     HeldAt(os, os.filePathToTodoistId[path], path)

====
